---- MODULE Spec2Model ----
(***************************************************************************)
(* Model of the Netatmo API client (custom_components/netatmo_custom/      *)
(* api.py), the adaptive update coordinator (coordinator.py) and the       *)
(* webhook handler (webhook.py).                                           *)
(*                                                                         *)
(* Time is counted in ticks of half a second, so that the 0.5 s safety     *)
(* margin of the rate limiter is one tick and every polling interval the   *)
(* coordinator can set (30, 60, 90, 135, 202.5 and 300 s) is an integer.  *)
(***************************************************************************)
EXTENDS Integers, Sequences, FiniteSets, TLC

VARIABLES
    now,                  \* time.time(), in ticks of 0.5 s
    request_timestamps,   \* NetatmoAPI._request_timestamps
    consecutive_failures, \* NetatmoAPI._consecutive_failures
    pc,                   \* position of the async_request coroutine
    op,                   \* the public operation invoked, with its arguments
    call,                 \* arguments of the running async_request call
    attempt,              \* loop variable of async_request
    last_error,           \* local last_error of async_request
    wait_time,            \* duration of the pending asyncio.sleep, in ticks
    hist,                 \* outcomes of the attempts of this call, in order
    sent,                 \* HTTP requests issued by this call, in order
    result,               \* what the call returned or raised
    failures_before,      \* consecutive_failures when the call started
    last_check,           \* time of the last pruning in _check_rate_limit
    oauth_token,          \* OAuth2Session.token["access_token"]
    calls_made,           \* number of async_request calls started
    stamped,              \* timestamps this call has recorded so far
    tasks,                \* other coroutines inside _check_rate_limit
    data,                 \* DataUpdateCoordinator.data, the live snapshot
    consecutive_update_failures,  \* coordinator._consecutive_update_failures
    last_successful_update,       \* coordinator._last_successful_update
    update_interval,      \* coordinator.update_interval, in ticks
    webhook_active,       \* coordinator.webhook_active
    cpc,                  \* position of _async_update_data
    homes_data,           \* local homes_data of _async_update_data
    refresh_result,       \* how the last _async_update_data ended
    failed_in_a_row,      \* refreshes that failed since the last one that succeeded
    hpc,                  \* position of webhook_handler
    handler_result,       \* what the last webhook_handler run answered
    epc,                  \* position of the operation of a collaborator
    caller,               \* that operation, its arguments and its result
    refresh_requests      \* async_request_refresh calls of the last operation

clientVars == <<now, request_timestamps, consecutive_failures, pc, op, call,
                attempt, last_error, wait_time, hist, sent, result,
                failures_before, last_check, oauth_token, calls_made,
                stamped, tasks>>

\* the client's state without the clock
clientState == <<request_timestamps, consecutive_failures, pc, op, call,
                 attempt, last_error, wait_time, hist, sent, result,
                 failures_before, last_check, oauth_token, calls_made,
                 stamped, tasks>>

coordVars == <<data, consecutive_update_failures, last_successful_update,
               update_interval, webhook_active, cpc, homes_data,
               refresh_result, failed_in_a_row, hpc, handler_result>>

callerVars == <<epc, caller, refresh_requests>>

vars == <<clientVars, coordVars, callerVars>>

----------------------------------------------------------------------------
(* Program constants, api.py lines 22-33 and const.py *)

\* a budget of one more retry
MAX_RETRIES_more == 3 + 1

MAX_RETRIES == 3
INITIAL_BACKOFF == 2
MAX_BACKOFF == 30
REQUEST_TIMEOUT == 30
RATE_LIMIT_WINDOW == 10
RATE_LIMIT_MAX_REQUESTS == 40
TRANSIENT_ERROR_CODES == {<<"9">>, <<"1", "0">>, <<"1", "3">>, <<"2", "6">>}

API_BASE_URL == "https://api.netatmo.com/api/"
ENDPOINT_HOMESDATA == "homesdata"
ENDPOINT_HOMESTATUS == "homestatus"
ENDPOINT_SETROOMTHERMPOINT == "setroomthermpoint"
ENDPOINT_SETTHERMMODE == "setthermmode"

UPDATE_INTERVAL == 60
MIN_UPDATE_INTERVAL == 30
MAX_UPDATE_INTERVAL == 300
\* 1.5, as numerator and denominator
FAILURE_BACKOFF_MULTIPLIER == <<3, 2>>

(* Bounds of the model *)

NumBodies == 2          \* distinct response bodies the vendor may send
MaxPriorFailures == 2   \* value of the failure counter before the call
NumTokens == 2          \* access tokens the token provider may hand out
MaxIdleTicks == 2       \* time a sequential caller may idle between attempts
MaxBurst == 42          \* attempts of the back-to-back caller
MaxStreak == 5          \* longest run of failed refreshes
MaxTime == 2            \* last tick of the coordinator's clock
MaxAge == 1             \* largest max_age_seconds asked of is_data_stale
NumTasks == 2           \* coroutines sharing the client's rate limiter
MaxFetches == 3         \* client calls made by the refreshes of one run
MaxEarly == 2           \* attempts recorded one or more ticks before the rest
MaxGap == 2             \* ticks between those attempts and the rest
MaxClock == 22          \* last tick of the clock of the coroutines

\* seconds to ticks
Ticks(s) == s + s

Min(a, b) == IF a < b THEN a ELSE b

RECURSIVE Pow(_, _)
Pow(b, n) == IF n = 0 THEN 1 ELSE b * Pow(b, n - 1)

Pow2(n) == Pow(2, n)

\* Optional values: None is the empty sequence, a value x is <<x>>
None == <<>>
Some(x) == <<x>>

----------------------------------------------------------------------------
(* str() of an integer and int() of a string, on strings represented as    *)
(* sequences of characters.                                                *)

Digit(d) == CASE d = 0 -> "0" [] d = 1 -> "1" [] d = 2 -> "2" [] d = 3 -> "3"
              [] d = 4 -> "4" [] d = 5 -> "5" [] d = 6 -> "6" [] d = 7 -> "7"
              [] d = 8 -> "8" [] d = 9 -> "9"

RECURSIVE Str(_)
Str(n) == IF n < 10 THEN <<Digit(n)>> ELSE Append(Str(n \div 10), Digit(n % 10))

DigitChars == {"0", "1", "2", "3", "4", "5", "6", "7", "8", "9"}

DigitVal(c) == CHOOSE d \in 0..9 : Digit(d) = c

IsIntString(s) == Len(s) > 0 /\ \A i \in 1..Len(s) : s[i] \in DigitChars

RECURSIVE IntOf(_)
IntOf(s) == IF Len(s) = 0 THEN 0
            ELSE 10 * IntOf(SubSeq(s, 1, Len(s) - 1)) + DigitVal(s[Len(s)])

\* JSON scalars that may stand where an error code stands
JInt(n) == [t |-> "int", n |-> n, s |-> <<>>]
JStr(s) == [t |-> "str", n |-> 0, s |-> s]
JNone == [t |-> "none", n |-> 0, s |-> <<>>]

\* Python's str() of such a scalar
PyStr(v) == CASE v.t = "int" -> Str(v.n)
              [] v.t = "str" -> v.s
              [] v.t = "none" -> <<"None">>

----------------------------------------------------------------------------
(* HTTP responses.  A response is (status, text, headers) as returned by   *)
(* _do_request.  The text is either the serialisation of a JSON value or   *)
(* not JSON at all; a JSON value is a dict or something else.              *)

NoHeaders == <<>>

\* dict.get on the header dict: keys are matched exactly, case included
HGet(h, k) == IF k \in DOMAIN h THEN Some(h[k]) ELSE None

\* the "error" member of an envelope
ErrAbsent == [present |-> FALSE, isdict |-> TRUE, hascode |-> FALSE,
              code |-> JNone, hasmsg |-> FALSE, message |-> "none"]
ErrCode(c) == [present |-> TRUE, isdict |-> TRUE, hascode |-> TRUE,
               code |-> c, hasmsg |-> TRUE, message |-> "vendor message"]
ErrNoCode == [present |-> TRUE, isdict |-> TRUE, hascode |-> FALSE,
              code |-> JNone, hasmsg |-> FALSE, message |-> "none"]
ErrNotDict == [present |-> TRUE, isdict |-> FALSE, hascode |-> FALSE,
               code |-> JNone, hasmsg |-> FALSE, message |-> "none"]

\* JSON values: a dict with optional members status, error, body; or not a dict
JDict(st, err, b) == [isdict |-> TRUE, status |-> st, error |-> err, body |-> b]
JNotDict == [isdict |-> FALSE, status |-> None, error |-> ErrAbsent, body |-> 0]

\* response texts
JsonText(v) == [wf |-> TRUE, value |-> v]
Garbage == [wf |-> FALSE, value |-> JNotDict]

OkText(b) == JsonText(JDict(Some("ok"), ErrAbsent, b))
ErrText(err) == JsonText(JDict(Some("failed"), err, 0))

Resp(st, txt, h) == [status |-> st, text |-> txt, headers |-> h]

\* json.loads: the parsed value, or JSONDecodeError
JsonLoads(txt) == IF txt.wf THEN [ok |-> TRUE, value |-> txt.value]
                  ELSE [ok |-> FALSE, value |-> JNotDict]

RetryAfter(name, v) == name :> v

Bodies == 1..NumBodies

OkResponses == {Resp(200, OkText(b), NoHeaders) : b \in Bodies}

ServerErrorResponses == {Resp(500, Garbage, NoHeaders),
                         Resp(503, OkText(1), NoHeaders)}

VendorErrorResponses ==
    {Resp(200, ErrText(e), NoHeaders) :
        e \in {ErrCode(JInt(9)), ErrCode(JStr(<<"1", "0">>)),
               ErrCode(JInt(26)), ErrCode(JInt(2)), ErrNoCode}}

AuthResponses ==
    {Resp(401, Garbage, NoHeaders),
     Resp(403, ErrText(ErrCode(JInt(13))), NoHeaders),
     Resp(403, ErrText(ErrCode(JInt(2))), NoHeaders),
     Resp(403, ErrText(ErrNoCode), NoHeaders),
     Resp(403, ErrText(ErrNotDict), NoHeaders),
     Resp(403, JsonText(JNotDict), NoHeaders),
     Resp(403, Garbage, NoHeaders)}

RateLimitResponses ==
    {Resp(429, Garbage, NoHeaders),
     Resp(429, Garbage, RetryAfter("Retry-After", <<"1">>)),
     Resp(429, Garbage, RetryAfter("retry-after", <<"4", "5">>))}

\* 429 responses whose Retry-After header is spelled otherwise, or carries
\* an HTTP date instead of a number of seconds
OtherRetryAfterResponses ==
    {Resp(429, Garbage, RetryAfter("RETRY-AFTER", <<"5">>)),
     Resp(429, Garbage, RetryAfter("Retry-after", <<"7">>)),
     Resp(429, Garbage, RetryAfter("Retry-After", <<"W", "e", "d">>))}

ClientErrorResponses ==
    {Resp(404, Garbage, NoHeaders),
     Resp(400, ErrText(ErrCode(JInt(9))), NoHeaders),
     Resp(499, Garbage, RetryAfter("Retry-After", <<"1">>))}

MalformedResponses == {Resp(200, Garbage, NoHeaders),
                       Resp(200, JsonText(JNotDict), NoHeaders)}

NoResp == Resp(0, Garbage, NoHeaders)

\* what one attempt can meet: a failing token fetch, a transport failure,
\* or a response
Outcome(k, r) == [kind |-> k, resp |-> r]
TokenFailure == Outcome("token_failure", NoResp)
Timeout == Outcome("timeout", NoResp)
ConnectionError == Outcome("connection_error", NoResp)
Response(r) == Outcome("response", r)

AllOutcomes ==
    {TokenFailure, Timeout, ConnectionError}
    \cup {Response(r) : r \in OkResponses \cup ServerErrorResponses
                              \cup VendorErrorResponses \cup AuthResponses
                              \cup RateLimitResponses \cup ClientErrorResponses
                              \cup MalformedResponses}

CoreOutcomes ==
    {TokenFailure, Timeout}
    \cup {Response(r) : r \in OkResponses}
    \cup {Response(Resp(500, Garbage, NoHeaders)),
          Response(Resp(404, Garbage, NoHeaders))}

QuickOutcomes == {Response(Resp(200, OkText(1), NoHeaders))}

RateLimitOutcomes ==
    QuickOutcomes
    \cup {Response(r) : r \in RateLimitResponses \cup OtherRetryAfterResponses}

----------------------------------------------------------------------------
(* The public operations of the client: each builds the arguments of one   *)
(* async_request call.                                                     *)

ApiCall(m, e, d) == [method |-> m, endpoint |-> e, data |-> d]

async_get_homes_data == ApiCall("POST", ENDPOINT_HOMESDATA, None)

async_get_home_status(home_id) ==
    ApiCall("POST", ENDPOINT_HOMESTATUS, Some([home_id |-> home_id]))

\* async_set_room_thermpoint testing the truth value of temp
async_set_room_thermpoint_truthy(home_id, room_id, mode, temp, endtime) ==
    LET data0 == [home_id |-> home_id, room_id |-> room_id, mode |-> mode]
        data1 == IF temp # None /\ temp[1] # 0
                 THEN data0 @@ ("temp" :> temp[1]) ELSE data0
        data2 == IF endtime # None THEN data1 @@ ("endtime" :> endtime[1])
                 ELSE data1
    IN  ApiCall("POST", ENDPOINT_SETROOMTHERMPOINT, Some(data2))

async_set_room_thermpoint(home_id, room_id, mode, temp, endtime) ==
    LET data0 == [home_id |-> home_id, room_id |-> room_id, mode |-> mode]
        data1 == IF temp # None THEN data0 @@ ("temp" :> temp[1]) ELSE data0
        data2 == IF endtime # None THEN data1 @@ ("endtime" :> endtime[1])
                 ELSE data1
    IN  ApiCall("POST", ENDPOINT_SETROOMTHERMPOINT, Some(data2))

async_set_therm_mode(home_id, mode, endtime, schedule_id) ==
    LET data0 == [home_id |-> home_id, mode |-> mode]
        data1 == IF endtime # None THEN data0 @@ ("endtime" :> endtime[1])
                 ELSE data0
        data2 == IF schedule_id # None
                 THEN data1 @@ ("schedule_id" :> schedule_id[1]) ELSE data1
    IN  ApiCall("POST", ENDPOINT_SETTHERMMODE, Some(data2))

\* the request handed to the HTTP session by _do_request
HttpRequest(c, token) ==
    [method |-> c.method,
     url |-> <<API_BASE_URL, c.endpoint>>,
     headers |-> [Authorization |-> <<"Bearer", token>>],
     data |-> c.data]

----------------------------------------------------------------------------
(* Classification of one attempt's response, async_request lines 148-221.  *)
(* A step says how the attempt ends: sleep and retry, raise, or return.    *)

Step(nx, ty, w, inc, val, code, msg) ==
    [next |-> nx, type |-> ty, wait |-> w, incr |-> inc, value |-> val,
     code |-> code, message |-> msg]

Raise(ty, inc) == Step("raise", ty, 0, inc, JNotDict, <<>>, "none")
RaiseVendor(code, msg) ==
    Step("raise", "NetatmoAPIError", 0, TRUE, JNotDict, code, msg)
Retry(w) == Step("backoff", "none", w, FALSE, JNotDict, <<>>, "none")
Return(v) == Step("return", "none", 0, FALSE, v, <<>>, "none")

\* the backoff growing by INITIAL_BACKOFF with each attempt
Backoff_linear(att) == Ticks(Min(INITIAL_BACKOFF * (att + 1), MAX_BACKOFF))

\* min(INITIAL_BACKOFF * (2 ** attempt), MAX_BACKOFF), lines 159, 184, 210,
\* 226 and 234
Backoff(att) == Ticks(Min(INITIAL_BACKOFF * Pow2(att), MAX_BACKOFF))

\* Handle403 taking every 403 as fatal
Handle403_noretry(resp, att) ==
    LET p == JsonLoads(resp.text) IN
    IF ~p.ok THEN Raise("NetatmoAuthError", TRUE)
    ELSE IF ~p.value.isdict \/ ~p.value.error.isdict
    THEN Raise("AttributeError", FALSE)
    ELSE Raise("NetatmoAuthError", TRUE)

\* Handle403 retrying a transient code after the first attempt only
Handle403_once(resp, att) ==
    LET p == JsonLoads(resp.text) IN
    IF ~p.ok THEN Raise("NetatmoAuthError", TRUE)
    ELSE IF ~p.value.isdict \/ ~p.value.error.isdict
    THEN Raise("AttributeError", FALSE)
    ELSE LET err_code == IF p.value.error.hascode THEN p.value.error.code
                         ELSE JNone
         IN  IF PyStr(err_code) \in TRANSIENT_ERROR_CODES /\ att < 1
             THEN Retry(Backoff(att))
             ELSE Raise("NetatmoAuthError", TRUE)

Handle403(resp, att) ==
    LET p == JsonLoads(resp.text) IN
    IF ~p.ok THEN Raise("NetatmoAuthError", TRUE)
    ELSE IF ~p.value.isdict \/ ~p.value.error.isdict
    THEN Raise("AttributeError", FALSE)
    ELSE LET err_code == IF p.value.error.hascode THEN p.value.error.code
                         ELSE JNone
         IN  IF PyStr(err_code) \in TRANSIENT_ERROR_CODES /\ att < MAX_RETRIES
             THEN Retry(Backoff(att))
             ELSE Raise("NetatmoAuthError", TRUE)

Truthy(opt) == opt # None /\ Len(opt[1]) > 0

\* Handle429 sleeping for the whole Retry-After value
Handle429_nocap(resp, att) ==
    LET upper == HGet(resp.headers, "Retry-After")
        lower == HGet(resp.headers, "retry-after")
        retry_after_str == IF Truthy(upper) THEN upper[1]
                           ELSE IF Truthy(lower) THEN lower[1]
                           ELSE <<"6", "0">>
    IN  IF ~IsIntString(retry_after_str) THEN Raise("ValueError", FALSE)
        ELSE IF att < MAX_RETRIES
        THEN Retry(Ticks(IntOf(retry_after_str)))
        ELSE Raise("NetatmoRateLimitError", TRUE)

Handle429(resp, att) ==
    LET upper == HGet(resp.headers, "Retry-After")
        lower == HGet(resp.headers, "retry-after")
        retry_after_str == IF Truthy(upper) THEN upper[1]
                           ELSE IF Truthy(lower) THEN lower[1]
                           ELSE <<"6", "0">>
    IN  IF ~IsIntString(retry_after_str) THEN Raise("ValueError", FALSE)
        ELSE IF att < MAX_RETRIES
        THEN Retry(Ticks(Min(IntOf(retry_after_str), MAX_BACKOFF)))
        ELSE Raise("NetatmoRateLimitError", TRUE)

\* Handle5xx with a budget one retry short
Handle5xx_short(resp, att) ==
    IF att < MAX_RETRIES - 1 THEN Retry(Backoff(att))
    ELSE Raise("NetatmoAPIError", TRUE)

Handle5xx(resp, att) ==
    IF att < MAX_RETRIES THEN Retry(Backoff(att))
    ELSE Raise("NetatmoAPIError", TRUE)

\* HandleEnvelope comparing the raw code, without str(), to the string set
HandleEnvelope_nostr(resp, att) ==
    LET p == JsonLoads(resp.text) IN
    IF ~p.ok THEN Raise("NetatmoAPIError", TRUE)
    ELSE IF ~p.value.isdict THEN Raise("AttributeError", FALSE)
    ELSE IF p.value.status # Some("ok")
    THEN IF ~p.value.error.isdict THEN Raise("AttributeError", FALSE)
         ELSE LET error_msg == IF p.value.error.hasmsg
                               THEN p.value.error.message ELSE "Unknown error"
                  error_code == IF p.value.error.hascode
                                THEN p.value.error.code
                                ELSE JStr(<<"unknown">>)
              IN  IF error_code.t = "str"
                     /\ error_code.s \in TRANSIENT_ERROR_CODES
                     /\ att < MAX_RETRIES
                  THEN Retry(Backoff(att))
                  ELSE RaiseVendor(PyStr(error_code), error_msg)
    ELSE Return(p.value)

HandleEnvelope(resp, att) ==
    LET p == JsonLoads(resp.text) IN
    IF ~p.ok THEN Raise("NetatmoAPIError", TRUE)
    ELSE IF ~p.value.isdict THEN Raise("AttributeError", FALSE)
    ELSE IF p.value.status # Some("ok")
    THEN IF ~p.value.error.isdict THEN Raise("AttributeError", FALSE)
         ELSE LET error_msg == IF p.value.error.hasmsg
                               THEN p.value.error.message ELSE "Unknown error"
                  error_code == IF p.value.error.hascode
                                THEN p.value.error.code
                                ELSE JStr(<<"unknown">>)
              IN  IF PyStr(error_code) \in TRANSIENT_ERROR_CODES
                     /\ att < MAX_RETRIES
                  THEN Retry(Backoff(att))
                  ELSE RaiseVendor(PyStr(error_code), error_msg)
    ELSE Return(p.value)

\* HandleResponse retrying every status from 400 up like a server error
HandleResponse_retry4xx(resp, att) ==
    IF resp.status = 401 THEN Raise("NetatmoAuthError", TRUE)
    ELSE IF resp.status = 403 THEN Handle403(resp, att)
    ELSE IF resp.status = 429 THEN Handle429(resp, att)
    ELSE IF resp.status >= 400 THEN Handle5xx(resp, att)
    ELSE HandleEnvelope(resp, att)

HandleResponse(resp, att) ==
    IF resp.status = 401 THEN Raise("NetatmoAuthError", TRUE)
    ELSE IF resp.status = 403 THEN Handle403(resp, att)
    ELSE IF resp.status = 429 THEN Handle429(resp, att)
    ELSE IF resp.status >= 500 THEN Handle5xx(resp, att)
    ELSE IF resp.status >= 400 THEN Raise("NetatmoAPIError", TRUE)
    ELSE HandleEnvelope(resp, att)

\* a transport failure: retried while the budget lasts, otherwise the loop
\* ends and the code after it raises by the kind of last_error
\* the code after the loop not telling a timeout from other failures
AfterLoop_timeout(le) == Raise("NetatmoTimeoutError", TRUE)

AfterLoop(le) ==
    IF le = "timeout" THEN Raise("NetatmoTimeoutError", TRUE)
    ELSE Raise("NetatmoAPIError", TRUE)

HandleTransport(kind, att) ==
    IF att < MAX_RETRIES THEN Retry(Backoff(att)) ELSE AfterLoop(kind)

----------------------------------------------------------------------------
(* The client: one sequential caller of async_request.                     *)

NoResult == [kind |-> "none", type |-> "none", value |-> JNotDict,
             code |-> <<>>, message |-> "none"]
Returned(v) == [kind |-> "return", type |-> "none", value |-> v,
                code |-> <<>>, message |-> "none"]
Raised(st) == [kind |-> "raise", type |-> st.type, value |-> JNotDict,
               code |-> st.code, message |-> st.message]

NoCall == ApiCall("none", "none", None)

\* an invocation of a public operation of the client
Op(name, home_id, room_id, mode, temp, endtime, schedule_id) ==
    [name |-> name, home_id |-> home_id, room_id |-> room_id, mode |-> mode,
     temp |-> temp, endtime |-> endtime, schedule_id |-> schedule_id]

NoOp == Op("none", "none", "none", "none", None, None, None)
GetHomesData == Op("async_get_homes_data", "none", "none", "none", None, None, None)
GetHomeStatus(h) ==
    Op("async_get_home_status", h, "none", "none", None, None, None)
SetRoomThermpoint(h, r, m, t, e) ==
    Op("async_set_room_thermpoint", h, r, m, t, e, None)
SetThermMode(h, m, e, sch) ==
    Op("async_set_therm_mode", h, "none", m, None, e, sch)

\* the async_request call the operation makes
CallOf(o) ==
    CASE o.name = "async_get_homes_data" -> async_get_homes_data
      [] o.name = "async_get_home_status" -> async_get_home_status(o.home_id)
      [] o.name = "async_set_room_thermpoint" ->
            async_set_room_thermpoint(o.home_id, o.room_id, o.mode, o.temp,
                                      o.endtime)
      [] o.name = "async_set_therm_mode" ->
            async_set_therm_mode(o.home_id, o.mode, o.endtime, o.schedule_id)

\* the coroutines that call the client besides the one followed in full,
\* each idle, asleep in _check_rate_limit until `wake`, or past it
Tasks == 1..NumTasks

Task(p, w) == [pc |-> p, wake |-> w]

\* a client that made n attempts within the current tick, the last f of
\* them calls that failed on their only attempt
ClientInit(prior) ==
    /\ now = 0
    /\ \E n \in prior : \E f \in 0..MaxPriorFailures :
          /\ f <= n
          /\ request_timestamps = [i \in 1..n |-> 0]
          /\ consecutive_failures = f
          /\ failures_before = f
    /\ pc = "idle"
    /\ op = NoOp
    /\ call = NoCall
    /\ attempt = 0
    /\ last_error = "none"
    /\ wait_time = 0
    /\ hist = <<>>
    /\ sent = <<>>
    /\ result = NoResult
    /\ last_check = 0
    /\ oauth_token = 1
    /\ calls_made = 0
    /\ stamped = 0
    /\ tasks = [t \in Tasks |-> Task("idle", 0)]

\* the locals of async_request are set up for the operation o, lines
\* 124-129
enter_request(o) ==
    /\ op' = o
    /\ call' = CallOf(o)
    /\ pc' = "check"
    /\ attempt' = 0
    /\ last_error' = "none"
    /\ hist' = <<>>
    /\ sent' = <<>>
    /\ result' = NoResult
    /\ failures_before' = consecutive_failures
    /\ calls_made' = calls_made + 1
    /\ stamped' = 0
    /\ UNCHANGED <<now, request_timestamps, consecutive_failures, wait_time,
                   last_check, oauth_token, tasks>>

\* the public operation o of an idle client enters async_request
start_request(o) ==
    /\ pc = "idle"
    /\ enter_request(o)

\* a public operation of the client is invoked
async_request(ops) ==
    /\ \E o \in ops : start_request(o)
    /\ UNCHANGED <<coordVars, callerVars>>

\* the window test with <= for <
InWindow_inclusive(t, ts) == t - ts <= Ticks(RATE_LIMIT_WINDOW)

InWindow(t, ts) == t - ts < Ticks(RATE_LIMIT_WINDOW)

Prune(t, stamps) == LET Keep(ts) == InWindow(t, ts) IN SelectSeq(stamps, Keep)

\* _check_rate_limit letting one request more through
check_rate_limit_offbyone ==
    /\ pc = "check"
    /\ LET pruned == Prune(now, request_timestamps)
           wt == Ticks(RATE_LIMIT_WINDOW) - (now - pruned[1]) + 1
       IN  IF Len(pruned) > RATE_LIMIT_MAX_REQUESTS /\ wt > 0
           THEN /\ request_timestamps' = pruned
                /\ wait_time' = wt
                /\ stamped' = stamped
                /\ pc' = "rate_sleep"
           ELSE /\ request_timestamps' = Append(pruned, now)
                /\ wait_time' = wait_time
                /\ stamped' = stamped + 1
                /\ pc' = "request"
    /\ last_check' = now
    /\ UNCHANGED <<now, consecutive_failures, op, call, attempt, last_error,
                   hist, sent, result, failures_before, oauth_token,
                   calls_made, tasks,
                   coordVars, callerVars>>

\* _check_rate_limit up to its sleep, lines 76-90
check_rate_limit ==
    /\ pc = "check"
    /\ LET pruned == Prune(now, request_timestamps)
           wt == Ticks(RATE_LIMIT_WINDOW) - (now - pruned[1]) + 1
       IN  IF Len(pruned) >= RATE_LIMIT_MAX_REQUESTS /\ wt > 0
           THEN /\ request_timestamps' = pruned
                /\ wait_time' = wt
                /\ stamped' = stamped
                /\ pc' = "rate_sleep"
           ELSE /\ request_timestamps' = Append(pruned, now)
                /\ wait_time' = wait_time
                /\ stamped' = stamped + 1
                /\ pc' = "request"
    /\ last_check' = now
    /\ UNCHANGED <<now, consecutive_failures, op, call, attempt, last_error,
                   hist, sent, result, failures_before, oauth_token,
                   calls_made, tasks,
                   coordVars, callerVars>>

\* _check_rate_limit returning from its sleep without recording the attempt
check_rate_limit_wake_nostamp ==
    /\ pc = "rate_sleep"
    /\ now' = now + wait_time
    /\ pc' = "request"
    /\ UNCHANGED <<request_timestamps, stamped, consecutive_failures, op,
                   call, attempt, last_error, wait_time, hist, sent, result,
                   failures_before, last_check, oauth_token, calls_made,
                   tasks, coordVars, callerVars>>

\* _check_rate_limit after its sleep, lines 88-90
check_rate_limit_wake ==
    /\ pc = "rate_sleep"
    /\ now' = now + wait_time
    /\ request_timestamps' = Append(request_timestamps, now')
    /\ stamped' = stamped + 1
    /\ pc' = "request"
    /\ UNCHANGED <<consecutive_failures, op, call, attempt, last_error,
                   wait_time, hist, sent, result, failures_before, last_check,
                   oauth_token, calls_made, tasks,
                   coordVars, callerVars>>

\* async_ensure_token_valid may have refreshed the token
ValidTokens == {oauth_token} \cup {t \in {oauth_token + 1} : t <= NumTokens}

\* Finish counting every failed attempt, not every failed call
Finish_perattempt(st) ==
    CASE st.next = "backoff" ->
            /\ pc' = "backoff"
            /\ wait_time' = st.wait
            /\ consecutive_failures' = consecutive_failures + 1
            /\ UNCHANGED result
      [] st.next = "raise" ->
            /\ pc' = "done"
            /\ result' = Raised(st)
            /\ consecutive_failures' =
                  IF st.incr THEN consecutive_failures + 1
                  ELSE consecutive_failures
            /\ UNCHANGED wait_time
      [] st.next = "return" ->
            /\ pc' = "done"
            /\ result' = Returned(st.value)
            /\ consecutive_failures' = 0
            /\ UNCHANGED wait_time

\* how an attempt ends, lines 148-246
Finish(st) ==
    CASE st.next = "backoff" ->
            /\ pc' = "backoff"
            /\ wait_time' = st.wait
            /\ UNCHANGED <<result, consecutive_failures>>
      [] st.next = "raise" ->
            /\ pc' = "done"
            /\ result' = Raised(st)
            /\ consecutive_failures' =
                  IF st.incr THEN consecutive_failures + 1
                  ELSE consecutive_failures
            /\ UNCHANGED wait_time
      [] st.next = "return" ->
            /\ pc' = "done"
            /\ result' = Returned(st.value)
            /\ consecutive_failures' = 0
            /\ UNCHANGED wait_time

\* a failing token fetch treated like a transport failure
HandleTokenFailure_retry(att) ==
    IF att < MAX_RETRIES THEN Retry(Backoff(att))
    ELSE Raise("NetatmoAuthError", FALSE)

\* a failing token fetch counted as a failure of the client
HandleTokenFailure_counted(att) == Raise("NetatmoAuthError", TRUE)

\* async_get_access_token raised, lines 136-138
HandleTokenFailure(att) == Raise("NetatmoAuthError", FALSE)

\* do_request sending every retry with the token fetched for the first
\* attempt of the call
do_request_cached(outcomes) ==
    /\ pc = "request"
    /\ \E o \in outcomes :
          /\ hist' = Append(hist, o)
          /\ IF o.kind = "token_failure"
             THEN /\ Finish(HandleTokenFailure(attempt))
                  /\ UNCHANGED <<now, sent, last_error, oauth_token>>
             ELSE \E tok \in ValidTokens :
                  /\ oauth_token' = tok
                  /\ sent' = Append(sent,
                                   IF sent = <<>> THEN HttpRequest(call, tok)
                                   ELSE [HttpRequest(call, tok) EXCEPT
                                           !.headers = sent[1].headers])
                  /\ now' = IF o.kind = "timeout"
                            THEN now + Ticks(REQUEST_TIMEOUT) ELSE now
                  /\ last_error' = IF o.kind = "response" THEN last_error
                                   ELSE o.kind
                  /\ Finish(IF o.kind = "response"
                            THEN HandleResponse(o.resp, attempt)
                            ELSE HandleTransport(o.kind, attempt))
    /\ UNCHANGED <<request_timestamps, op, call, attempt, failures_before,
                   last_check, calls_made, stamped, tasks,
                   coordVars, callerVars>>

\* token acquisition and one HTTP exchange, lines 133-237
do_request(outcomes) ==
    /\ pc = "request"
    /\ \E o \in outcomes :
          /\ hist' = Append(hist, o)
          /\ IF o.kind = "token_failure"
             THEN /\ Finish(HandleTokenFailure(attempt))
                  /\ UNCHANGED <<now, sent, last_error, oauth_token>>
             ELSE \E tok \in ValidTokens :
                  /\ oauth_token' = tok
                  /\ sent' = Append(sent, HttpRequest(call, tok))
                  /\ now' = IF o.kind = "timeout"
                            THEN now + Ticks(REQUEST_TIMEOUT) ELSE now
                  /\ last_error' = IF o.kind = "response" THEN last_error
                                   ELSE o.kind
                  /\ Finish(IF o.kind = "response"
                            THEN HandleResponse(o.resp, attempt)
                            ELSE HandleTransport(o.kind, attempt))
    /\ UNCHANGED <<request_timestamps, op, call, attempt, failures_before,
                   last_check, calls_made, stamped, tasks,
                   coordVars, callerVars>>

\* end of the asyncio.sleep before a retry, then `continue`: the loop of
\* line 129 goes to its next attempt, or is exhausted and lines 239-246 run
backoff_wake ==
    /\ pc = "backoff"
    /\ now' = now + wait_time
    /\ IF attempt < MAX_RETRIES
       THEN /\ attempt' = attempt + 1
            /\ pc' = "check"
            /\ UNCHANGED <<consecutive_failures, result>>
       ELSE /\ attempt' = attempt
            /\ pc' = "done"
            /\ result' = Raised(AfterLoop(last_error))
            /\ consecutive_failures' = consecutive_failures + 1
    /\ UNCHANGED <<request_timestamps, op, call,
                   last_error, wait_time, hist, sent, failures_before,
                   last_check, oauth_token, calls_made, stamped, tasks,
                   coordVars, callerVars>>

\* the sequential caller takes the result and is ready for its next call
next_call ==
    /\ pc = "done"
    /\ calls_made < MaxBurst
    /\ pc' = "idle"
    /\ UNCHANGED <<now, request_timestamps, consecutive_failures, op, call,
                   attempt, last_error, wait_time, hist, sent, result,
                   failures_before, last_check, oauth_token, calls_made, stamped,
                   tasks,
                   coordVars, callerVars>>

\* time passes while the caller is between two calls
idle ==
    /\ pc = "idle"
    /\ now < MaxIdleTicks
    /\ now' = now + 1
    /\ UNCHANGED <<request_timestamps, consecutive_failures, pc, op, call,
                   attempt, last_error, wait_time, hist, sent, result,
                   failures_before, last_check, oauth_token, calls_made, stamped,
                   tasks,
                   coordVars, callerVars>>

----------------------------------------------------------------------------
(* The update coordinator, coordinator.py.  The client calls it makes are  *)
(* represented by their results: a returned envelope or a raised error.    *)

NoSnapshot ==
    [present |-> FALSE, homes_data |-> JNotDict, home_status |-> JNotDict,
     timestamp |-> 0, update_successful |-> FALSE, stale |-> None,
     last_error |-> None]

NetatmoErrors == {"NetatmoAuthError", "NetatmoAPIError",
                  "NetatmoRateLimitError", "NetatmoTimeoutError"}

\* errors async_request lets through that are not Netatmo errors
OtherErrors == {"ValueError"}

\* except NetatmoAuthError
IsAuthError(ty) == ty = "NetatmoAuthError"

\* the NetatmoAPIError clause placed before the NetatmoAuthError clause
IsAPIError_first(ty) == ty \in NetatmoErrors

\* except NetatmoAPIError, reached by its subclasses that are not auth errors
IsAPIError(ty) == ty \in NetatmoErrors /\ ~IsAuthError(ty)

FetchResults ==
    {Returned(JDict(Some("ok"), ErrAbsent, b)) : b \in Bodies}
    \cup {Raised(Raise(ty, TRUE)) : ty \in NetatmoErrors \cup OtherErrors}

\* str(err) of a caught error
ErrorText(r) == <<r.type, r.message>>

\* how a refresh ended: by return or by raising UpdateFailed, the error it
\* caught, and the failure streak it started from
NoRefresh == [kind |-> "none", error |-> "none", previous_failures |-> 0]
RefreshReturned(err, prev) ==
    [kind |-> "return", error |-> err, previous_failures |-> prev]
UpdateFailed(err, prev) ==
    [kind |-> "raise", error |-> err, previous_failures |-> prev]

NoAnswer == [kind |-> "none", status |-> 0, text |-> "none"]
WebResponse(st, txt) == [kind |-> "response", status |-> st, text |-> txt]

\* an operation of a collaborator of the coordinator or of the client: its
\* name, its arguments and what it returned or raised
Caller(name, mode, temp, max_age, res) ==
    [name |-> name, mode |-> mode, temp |-> temp, max_age |-> max_age,
     result |-> res]

NoCaller == Caller("none", "none", None, 0, "none")

CoordInit ==
    /\ data = NoSnapshot
    /\ consecutive_update_failures = 0
    /\ last_successful_update = None
    /\ update_interval = Ticks(UPDATE_INTERVAL)
    /\ webhook_active = FALSE
    /\ cpc = "idle"
    /\ homes_data = JNotDict
    /\ refresh_result = NoRefresh
    /\ failed_in_a_row = 0
    /\ hpc = "idle"
    /\ handler_result = NoAnswer
    /\ epc = "idle"
    /\ caller = NoCaller
    /\ refresh_requests = 0

\* _adjust_update_interval leaving the interval alone on success
adjust_update_interval_keep(success, failures) ==
    IF success
    THEN [failures |-> 0, interval |-> update_interval]
    ELSE LET f == failures + 1
             e == Min(f, 5)
             num == UPDATE_INTERVAL * Pow(FAILURE_BACKOFF_MULTIPLIER[1], e)
             den == Pow(FAILURE_BACKOFF_MULTIPLIER[2], e)
         IN  [failures |-> f,
              interval |-> IF num < MAX_UPDATE_INTERVAL * den
                           THEN Ticks(num) \div den
                           ELSE Ticks(MAX_UPDATE_INTERVAL)]

\* _adjust_update_interval leaving the streak alone on success
adjust_update_interval_noreset(success, failures) ==
    IF success
    THEN [failures |-> failures, interval |-> Ticks(UPDATE_INTERVAL)]
    ELSE LET f == failures + 1
             e == Min(f, 5)
             num == UPDATE_INTERVAL * Pow(FAILURE_BACKOFF_MULTIPLIER[1], e)
             den == Pow(FAILURE_BACKOFF_MULTIPLIER[2], e)
         IN  [failures |-> f,
              interval |-> IF num < MAX_UPDATE_INTERVAL * den
                           THEN Ticks(num) \div den
                           ELSE Ticks(MAX_UPDATE_INTERVAL)]

\* _adjust_update_interval: the new failure streak and polling interval
\* _adjust_update_interval without the ceiling
adjust_update_interval_nocap(success, failures) ==
    IF success
    THEN [failures |-> 0, interval |-> Ticks(UPDATE_INTERVAL)]
    ELSE LET f == failures + 1
             e == Min(f, 5)
             num == UPDATE_INTERVAL * Pow(FAILURE_BACKOFF_MULTIPLIER[1], e)
             den == Pow(FAILURE_BACKOFF_MULTIPLIER[2], e)
         IN  [failures |-> f, interval |-> Ticks(num) \div den]

\* _adjust_update_interval keeping the fast interval while push
\* notifications are active
adjust_update_interval_push(success, failures) ==
    IF success
    THEN [failures |-> 0,
          interval |-> IF webhook_active THEN Ticks(MIN_UPDATE_INTERVAL)
                       ELSE Ticks(UPDATE_INTERVAL)]
    ELSE LET f == failures + 1
             e == Min(f, 5)
             num == UPDATE_INTERVAL * Pow(FAILURE_BACKOFF_MULTIPLIER[1], e)
             den == Pow(FAILURE_BACKOFF_MULTIPLIER[2], e)
         IN  [failures |-> f,
              interval |-> IF num < MAX_UPDATE_INTERVAL * den
                           THEN Ticks(num) \div den
                           ELSE Ticks(MAX_UPDATE_INTERVAL)]

\* _adjust_update_interval, lines 62-85
adjust_update_interval(success, failures) ==
    IF success
    THEN [failures |-> 0, interval |-> Ticks(UPDATE_INTERVAL)]
    ELSE LET f == failures + 1
             e == Min(f, 5)
             num == UPDATE_INTERVAL * Pow(FAILURE_BACKOFF_MULTIPLIER[1], e)
             den == Pow(FAILURE_BACKOFF_MULTIPLIER[2], e)
         IN  [failures |-> f,
              interval |-> IF num < MAX_UPDATE_INTERVAL * den
                           THEN Ticks(num) \div den
                           ELSE Ticks(MAX_UPDATE_INTERVAL)]

\* the refresh begins: async_get_homes_data is awaited, line 98
async_update_data_start ==
    /\ cpc = "idle"
    /\ cpc' = "homes_data"
    /\ UNCHANGED <<data, consecutive_update_failures, last_successful_update,
                   update_interval, webhook_active, homes_data,
                   refresh_result, failed_in_a_row, hpc, handler_result,
                   clientVars, callerVars>>

\* the except clauses with the tolerance one failure short
async_update_data_failed_strict(r) ==
    LET adj == adjust_update_interval(FALSE, consecutive_update_failures) IN
    /\ consecutive_update_failures < MaxStreak
    /\ consecutive_update_failures' = adj.failures
    /\ update_interval' = adj.interval
    /\ failed_in_a_row' = failed_in_a_row + 1
    /\ IF IsAPIError(r.type) /\ data.present /\ adj.failures < 3
       THEN /\ data' = [data EXCEPT !.timestamp = data.timestamp,
                                    !.update_successful = FALSE,
                                    !.stale = Some(TRUE),
                                    !.last_error = Some(ErrorText(r))]
            /\ refresh_result' =
                  RefreshReturned(r.type, consecutive_update_failures)
       ELSE /\ data' = data
            /\ refresh_result' =
                  UpdateFailed(r.type, consecutive_update_failures)
    /\ cpc' = "idle"
    /\ homes_data' = JNotDict
    /\ UNCHANGED <<last_successful_update, webhook_active, hpc,
                   handler_result, clientVars, callerVars>>

\* the except clauses stamping the stale snapshot with the default 0
async_update_data_failed_restamp(r) ==
    LET adj == adjust_update_interval(FALSE, consecutive_update_failures) IN
    /\ consecutive_update_failures < MaxStreak
    /\ consecutive_update_failures' = adj.failures
    /\ update_interval' = adj.interval
    /\ failed_in_a_row' = failed_in_a_row + 1
    /\ IF IsAPIError(r.type) /\ data.present /\ adj.failures <= 3
       THEN /\ data' = [data EXCEPT !.timestamp = 0,
                                    !.update_successful = FALSE,
                                    !.stale = Some(TRUE),
                                    !.last_error = Some(ErrorText(r))]
            /\ refresh_result' =
                  RefreshReturned(r.type, consecutive_update_failures)
       ELSE /\ data' = data
            /\ refresh_result' =
                  UpdateFailed(r.type, consecutive_update_failures)
    /\ cpc' = "idle"
    /\ homes_data' = JNotDict
    /\ UNCHANGED <<last_successful_update, webhook_active, hpc,
                   handler_result, clientVars, callerVars>>

\* the except clauses dropping the snapshot when they raise UpdateFailed
async_update_data_failed_clear(r) ==
    LET adj == adjust_update_interval(FALSE, consecutive_update_failures) IN
    /\ consecutive_update_failures < MaxStreak
    /\ consecutive_update_failures' = adj.failures
    /\ update_interval' = adj.interval
    /\ failed_in_a_row' = failed_in_a_row + 1
    /\ IF IsAPIError(r.type) /\ data.present /\ adj.failures <= 3
       THEN /\ data' = [data EXCEPT !.timestamp = data.timestamp,
                                    !.update_successful = FALSE,
                                    !.stale = Some(TRUE),
                                    !.last_error = Some(ErrorText(r))]
            /\ refresh_result' =
                  RefreshReturned(r.type, consecutive_update_failures)
       ELSE /\ data' = NoSnapshot
            /\ refresh_result' =
                  UpdateFailed(r.type, consecutive_update_failures)
    /\ cpc' = "idle"
    /\ homes_data' = JNotDict
    /\ UNCHANGED <<last_successful_update, webhook_active, hpc,
                   handler_result, clientVars, callerVars>>

\* the except clauses of _async_update_data, lines 117-145
async_update_data_failed(r) ==
    LET adj == adjust_update_interval(FALSE, consecutive_update_failures) IN
    /\ consecutive_update_failures < MaxStreak
    /\ consecutive_update_failures' = adj.failures
    /\ update_interval' = adj.interval
    /\ failed_in_a_row' = failed_in_a_row + 1
    /\ IF IsAPIError(r.type) /\ data.present /\ adj.failures <= 3
       THEN /\ data' = [data EXCEPT !.timestamp = data.timestamp,
                                    !.update_successful = FALSE,
                                    !.stale = Some(TRUE),
                                    !.last_error = Some(ErrorText(r))]
            /\ refresh_result' =
                  RefreshReturned(r.type, consecutive_update_failures)
       ELSE /\ data' = data
            /\ refresh_result' =
                  UpdateFailed(r.type, consecutive_update_failures)
    /\ cpc' = "idle"
    /\ homes_data' = JNotDict
    /\ UNCHANGED <<last_successful_update, webhook_active, hpc,
                   handler_result, clientVars, callerVars>>

\* async_get_homes_data completing with the structure put into the live
\* snapshot at once
async_update_data_homes_early ==
    /\ cpc = "homes_data"
    /\ \E r \in FetchResults :
          IF r.kind = "return"
          THEN /\ homes_data' = r.value
               /\ cpc' = "home_status"
               /\ data' = [data EXCEPT !.homes_data = r.value]
               /\ UNCHANGED <<consecutive_update_failures,
                              last_successful_update, update_interval,
                              webhook_active, refresh_result,
                              failed_in_a_row, hpc, handler_result,
                              clientVars, callerVars>>
          ELSE async_update_data_failed(r)

\* async_get_homes_data completes, lines 98 and 117-145
async_update_data_homes ==
    /\ cpc = "homes_data"
    /\ \E r \in FetchResults :
          IF r.kind = "return"
          THEN /\ homes_data' = r.value
               /\ cpc' = "home_status"
               /\ UNCHANGED <<data, consecutive_update_failures,
                              last_successful_update, update_interval,
                              webhook_active, refresh_result,
                              failed_in_a_row, hpc, handler_result,
                              clientVars, callerVars>>
          ELSE async_update_data_failed(r)

\* a successful refresh writing its result over the previous snapshot, as
\* the soft failure does, so that the fields it does not name stay
async_update_data_success_merge(r) ==
    LET adj == adjust_update_interval(TRUE, consecutive_update_failures) IN
    /\ last_successful_update' = Some(now)
    /\ consecutive_update_failures' = adj.failures
    /\ update_interval' = adj.interval
    /\ failed_in_a_row' = 0
    /\ data' = [data EXCEPT !.present = TRUE,
                            !.homes_data = homes_data,
                            !.home_status = r.value,
                            !.timestamp = now,
                            !.update_successful = TRUE]
    /\ refresh_result' = RefreshReturned("none", consecutive_update_failures)
    /\ cpc' = "idle"
    /\ homes_data' = JNotDict
    /\ UNCHANGED <<webhook_active, hpc, handler_result, clientVars,
                   callerVars>>

\* both fetches returned, lines 101-115: r is the result of the status fetch
async_update_data_success(r) ==
    LET adj == adjust_update_interval(TRUE, consecutive_update_failures) IN
    /\ last_successful_update' = Some(now)
    /\ consecutive_update_failures' = adj.failures
    /\ update_interval' = adj.interval
    /\ failed_in_a_row' = 0
    /\ data' = [present |-> TRUE,
                homes_data |-> homes_data,
                home_status |-> r.value,
                timestamp |-> now,
                update_successful |-> TRUE,
                stale |-> None,
                last_error |-> None]
    /\ refresh_result' = RefreshReturned("none", consecutive_update_failures)
    /\ cpc' = "idle"
    /\ homes_data' = JNotDict
    /\ UNCHANGED <<webhook_active, hpc, handler_result, clientVars,
                   callerVars>>

\* async_get_home_status completes, lines 99-145
async_update_data_status ==
    /\ cpc = "home_status"
    /\ \E r \in FetchResults :
          IF r.kind = "return"
          THEN async_update_data_success(r)
          ELSE async_update_data_failed(r)

\* time.time() moves on
clock_tick ==
    /\ now < MaxTime
    /\ now' = now + 1
    /\ UNCHANGED <<clientState, coordVars, callerVars>>

----------------------------------------------------------------------------
(* The webhook handler, webhook.py lines 29-73, and                        *)
(* coordinator.async_handle_webhook, coordinator.py lines 147-188.         *)

\* a request whose body cannot be read, or whose body is a JSON object,
\* JSON but no object, or no JSON
WebhookRequests == {"unreadable", "json_object", "json_other", "not_json"}

\* lines 47-62: request.text() raises on an unreadable body and data.get
\* raises on JSON that is no object; a body that is no JSON is wrapped in a
\* dict
ReachesCoordinator(req) == req \in {"json_object", "not_json"}

\* webhook_handler reporting its failure to the sender
webhook_response_500(raised) ==
    IF raised THEN WebResponse(500, "Error processed")
    ELSE WebResponse(200, "OK")

\* the answer of webhook_handler: line 68, or the except clause of line 70
webhook_response(raised) ==
    IF raised THEN WebResponse(200, "Error processed")
    ELSE WebResponse(200, "OK")

\* async_request_refresh called from async_handle_webhook.  The refresh
\* runs at once when none is in flight and the debouncer allows it, and the
\* caller waits for it; otherwise the request returns at once.
webhook_request_refresh ==
    /\ refresh_requests' = 1
    /\ \/ /\ cpc = "idle"
          /\ cpc' = "homes_data"
          /\ hpc' = "awaiting_refresh"
          /\ handler_result' = NoAnswer
       \/ /\ \E refresh_raises \in BOOLEAN :
                handler_result' = webhook_response(refresh_raises)
          /\ UNCHANGED <<cpc, hpc>>

\* async_handle_webhook applying the notification to the snapshot it holds
\* instead of asking for a refresh
async_handle_webhook_merge ==
    /\ webhook_active' = TRUE
    /\ update_interval' = Ticks(MIN_UPDATE_INTERVAL)
    /\ IF ~data.present
       THEN webhook_request_refresh
       ELSE /\ refresh_requests' = 0
            /\ handler_result' = webhook_response(FALSE)
            /\ UNCHANGED <<cpc, hpc>>

\* coordinator.async_handle_webhook, coordinator.py lines 147-188
async_handle_webhook ==
    /\ webhook_active' = TRUE
    /\ update_interval' = Ticks(MIN_UPDATE_INTERVAL)
    /\ IF ~data.present
       THEN webhook_request_refresh
       ELSE webhook_request_refresh

\* webhook_handler up to the refresh it awaits
webhook_handler ==
    /\ hpc = "idle"
    /\ \/ /\ \E req \in WebhookRequests : ~ReachesCoordinator(req)
          /\ handler_result' = webhook_response(TRUE)
          /\ refresh_requests' = 0
          /\ UNCHANGED <<webhook_active, update_interval, cpc, hpc>>
       \/ /\ \E req \in WebhookRequests : ReachesCoordinator(req)
          /\ async_handle_webhook
    /\ UNCHANGED <<data, consecutive_update_failures, last_successful_update,
                   homes_data, refresh_result, failed_in_a_row, epc, caller,
                   clientVars>>

\* the awaited refresh is over: webhook_handler answers, lines 65-73
webhook_handler_answer ==
    /\ hpc = "awaiting_refresh"
    /\ cpc = "idle"
    /\ \E refresh_raises \in BOOLEAN :
          handler_result' = webhook_response(refresh_raises)
    /\ hpc' = "idle"
    /\ UNCHANGED <<data, consecutive_update_failures, last_successful_update,
                   update_interval, webhook_active, cpc, homes_data,
                   refresh_result, failed_in_a_row, clientVars, callerVars>>

NextCoord ==
    \/ async_update_data_start
    \/ async_update_data_homes
    \/ async_update_data_status
    \/ webhook_handler
    \/ webhook_handler_answer
    \/ clock_tick

InitCoord == ClientInit({0}) /\ CoordInit

SpecCoord == InitCoord /\ [][NextCoord]_vars

----------------------------------------------------------------------------
(* Several coroutines in _check_rate_limit of one client, api.py lines     *)
(* 74-90: a refresh of the coordinator and the mutations of the entities,  *)
(* climate.py lines 291-300, call the same NetatmoAPI object, and each     *)
(* attempt of each of them passes through the one list of timestamps.      *)

\* the client's state that the coroutines leave alone
sharedRest == <<consecutive_failures, pc, op, call, attempt, last_error,
                wait_time, hist, sent, result, failures_before, last_check,
                oauth_token, calls_made, stamped, coordVars, callerVars>>

\* coroutine t enters _check_rate_limit and runs to its sleep or its end,
\* lines 76-90
task_check_rate_limit(t) ==
    /\ tasks[t].pc = "idle"
    /\ LET pruned == Prune(now, request_timestamps)
           wt == Ticks(RATE_LIMIT_WINDOW) - (now - pruned[1]) + 1
       IN  IF Len(pruned) >= RATE_LIMIT_MAX_REQUESTS /\ wt > 0
           THEN /\ request_timestamps' = pruned
                /\ tasks' = [tasks EXCEPT ![t] = Task("rate_sleep", now + wt)]
           ELSE /\ request_timestamps' = Append(pruned, now)
                /\ tasks' = [tasks EXCEPT ![t] = Task("request", 0)]
    /\ UNCHANGED <<now, sharedRest>>

\* coroutine t returns from the sleep of line 88 and records the attempt,
\* line 90
task_wake(t) ==
    /\ tasks[t].pc = "rate_sleep"
    /\ tasks[t].wake <= now
    /\ request_timestamps' = Append(request_timestamps, now)
    /\ tasks' = [tasks EXCEPT ![t] = Task("request", 0)]
    /\ UNCHANGED <<now, sharedRest>>

\* the attempt of coroutine t ends: the call returns or raises, or its
\* backoff is over and the next attempt is due, lines 134-237
task_attempt_ends(t) ==
    /\ tasks[t].pc = "request"
    /\ tasks' = [tasks EXCEPT ![t] = Task("idle", 0)]
    /\ UNCHANGED <<now, request_timestamps, sharedRest>>

\* the coroutines asleep in _check_rate_limit
Sleepers == {t \in Tasks : tasks[t].pc = "rate_sleep"}

\* time passes until the first of the sleeps ends
time_passes ==
    /\ Sleepers # {}
    /\ \E t \in Sleepers :
          /\ \A u \in Sleepers : tasks[t].wake <= tasks[u].wake
          /\ tasks[t].wake > now
          /\ tasks[t].wake <= MaxClock
          /\ now' = tasks[t].wake
    /\ UNCHANGED <<request_timestamps, tasks, sharedRest>>

\* a client that sequential calls have brought close to its limit: up to
\* MaxEarly attempts recorded at tick 0, the others at the present tick
InitShared ==
    /\ \E early \in 0..MaxEarly : \E gap \in 1..MaxGap :
       \E n \in (RATE_LIMIT_MAX_REQUESTS - MaxEarly)..RATE_LIMIT_MAX_REQUESTS :
          /\ early <= n
          /\ now = gap
          /\ request_timestamps =
                [i \in 1..n |-> IF i <= early THEN 0 ELSE gap]
    /\ consecutive_failures = 0
    /\ failures_before = 0
    /\ pc = "idle"
    /\ op = NoOp
    /\ call = NoCall
    /\ attempt = 0
    /\ last_error = "none"
    /\ wait_time = 0
    /\ hist = <<>>
    /\ sent = <<>>
    /\ result = NoResult
    /\ last_check = 0
    /\ oauth_token = 1
    /\ calls_made = 0
    /\ stamped = 0
    /\ tasks = [t \in Tasks |-> Task("idle", 0)]
    /\ CoordInit

NextShared ==
    \/ \E t \in Tasks : task_check_rate_limit(t)
    \/ \E t \in Tasks : task_wake(t)
    \/ \E t \in Tasks : task_attempt_ends(t)
    \/ time_passes

SpecShared == InitShared /\ [][NextShared]_vars

----------------------------------------------------------------------------
(* The coordinator's readers: is_data_stale, coordinator.py lines 202-216, *)
(* and async_force_refresh, lines 190-200.                                 *)

\* str() of a bool
PyBool(b) == IF b THEN "True" ELSE "False"

\* is_data_stale counting an age equal to max_age_seconds as stale
is_data_stale_inclusive(max_age_seconds) ==
    IF ~data.present THEN TRUE
    ELSE IF data.stale = Some(TRUE) THEN TRUE
    ELSE now - data.timestamp >= Ticks(max_age_seconds)

\* is_data_stale, lines 211-216
is_data_stale(max_age_seconds) ==
    IF ~data.present THEN TRUE
    ELSE IF data.stale = Some(TRUE) THEN TRUE
    ELSE now - data.timestamp > Ticks(max_age_seconds)

\* a collaborator asks is_data_stale; it may do so while a refresh is
\* suspended on a fetch
ask_is_data_stale ==
    /\ \E max_age_seconds \in 0..MaxAge :
          caller' = Caller("is_data_stale", "none", None, max_age_seconds,
                           PyBool(is_data_stale(max_age_seconds)))
    /\ UNCHANGED <<epc, refresh_requests, coordVars, clientVars>>

\* what async_force_refresh returns once async_request_refresh is over,
\* line 198.  async_request_refresh reports a failed refresh in the log and
\* returns, so the except clause of lines 199-200 is not entered by the
\* outcome of a refresh.
force_refresh_result == PyBool(data.present /\ data.update_successful)

\* async_force_refresh up to the refresh it awaits, lines 196-197; when a
\* refresh is in flight or the debouncer holds the request back,
\* async_request_refresh returns at once
async_force_refresh ==
    /\ epc = "idle"
    /\ refresh_requests' = 1
    /\ \/ /\ cpc = "idle"
          /\ cpc' = "homes_data"
          /\ epc' = "awaiting_refresh"
          /\ caller' = Caller("async_force_refresh", "none", None, 0, "none")
       \/ /\ caller' = Caller("async_force_refresh", "none", None, 0,
                            force_refresh_result)
          /\ UNCHANGED <<cpc, epc>>
    /\ UNCHANGED <<data, consecutive_update_failures, last_successful_update,
                   update_interval, webhook_active, homes_data,
                   refresh_result, failed_in_a_row, hpc, handler_result,
                   clientVars>>

\* the awaited refresh is over: async_force_refresh returns, lines 198-200
async_force_refresh_answer ==
    /\ epc = "awaiting_refresh"
    /\ cpc = "idle"
    /\ caller' = Caller("async_force_refresh", "none", None, 0,
                      force_refresh_result)
    /\ epc' = "idle"
    /\ UNCHANGED <<refresh_requests, coordVars, clientVars>>

\* the refresh the polling timer starts; a caller waiting for a finished
\* refresh resumes before a later refresh gets under way
scheduled_refresh ==
    /\ epc = "idle"
    /\ async_update_data_start

NextReaders ==
    \/ scheduled_refresh
    \/ async_update_data_homes
    \/ async_update_data_status
    \/ ask_is_data_stale
    \/ async_force_refresh
    \/ async_force_refresh_answer
    \/ clock_tick

SpecReaders == InitCoord /\ [][NextReaders]_vars

----------------------------------------------------------------------------
(* Specifications of the client *)

PriorAttempts == {0, RATE_LIMIT_MAX_REQUESTS - 1}

ClientOps == {GetHomesData}

Homes == {"H1"}
Rooms == {"R1"}
RoomModes == {"manual", "home"}
HomeModes == {"schedule", "away"}
Temps == {None, Some(0), Some(43)}       \* half degrees: 0.0 and 21.5
Endtimes == {None, Some(1700000000)}
ScheduleIds == {None, Some("S1")}

AllOps ==
    {GetHomesData}
    \cup {GetHomeStatus(h) : h \in Homes}
    \cup {SetRoomThermpoint(h, r, m, t, e) :
            h \in Homes, r \in Rooms, m \in RoomModes, t \in Temps,
            e \in Endtimes}
    \cup {SetThermMode(h, m, e, sch) :
            h \in Homes, m \in HomeModes, e \in Endtimes,
            sch \in ScheduleIds}

\* one call of async_request against every outcome of every attempt
Next ==
    \/ async_request(ClientOps)
    \/ check_rate_limit
    \/ check_rate_limit_wake
    \/ do_request(AllOutcomes)
    \/ backoff_wake

Init == ClientInit(PriorAttempts) /\ CoordInit

Spec == Init /\ [][Next]_vars

\* a client close to its rate limit with no failed call behind it
InitLive == Init /\ request_timestamps # <<>> /\ consecutive_failures = 0

\* one call of such a client, when every token fetch, HTTP exchange and
\* sleep of the call completes
SpecLive ==
    /\ InitLive
    /\ [][Next]_vars
    /\ WF_vars(check_rate_limit)
    /\ WF_vars(check_rate_limit_wake)
    /\ WF_vars(do_request(AllOutcomes))
    /\ WF_vars(backoff_wake)

\* a sequential caller issuing quick successful calls back-to-back
NextRate ==
    \/ async_request(ClientOps)
    \/ check_rate_limit
    \/ check_rate_limit_wake
    \/ do_request(QuickOutcomes)
    \/ next_call
    \/ idle

SpecRate == InitCoord /\ [][NextRate]_vars

\* every public operation with every argument, against the main outcomes
NextOps ==
    \/ async_request(AllOps)
    \/ check_rate_limit
    \/ do_request(CoreOutcomes)
    \/ backoff_wake

SpecOps == InitCoord /\ [][NextOps]_vars

\* one call of async_request against rate-limited responses
NextRateLimited ==
    \/ async_request(ClientOps)
    \/ check_rate_limit
    \/ check_rate_limit_wake
    \/ do_request(RateLimitOutcomes)
    \/ backoff_wake

SpecRateLimited == Init /\ [][NextRateLimited]_vars

----------------------------------------------------------------------------
(* The callers of the mutating operations: the thermostat entity,          *)
(* climate.py lines 285-358, and the set_schedule service, __init__.py     *)
(* lines 131-178.  One of them runs at a time.                             *)

\* the fallback of async_set_hvac_mode, 19.0 degrees, in half degrees
DEFAULT_TARGET == 38

HVACModes == {"off", "heat", "auto", "cool"}

PRESET_HOME == "home"
PRESET_AWAY == "away"
PRESET_NONE == "none"
PRESET_FROST_GUARD == "Frost Guard"

PresetModes == {PRESET_HOME, PRESET_AWAY, PRESET_NONE, PRESET_FROST_GUARD,
                "boost"}

\* mode_map.get(preset_mode), climate.py lines 336-343
mode_map(preset_mode) ==
    CASE preset_mode = PRESET_HOME -> Some("schedule")
      [] preset_mode = PRESET_AWAY -> Some("away")
      [] preset_mode = PRESET_FROST_GUARD -> Some("hg")
      [] preset_mode = PRESET_NONE -> Some("schedule")
      [] OTHER -> None

\* the homes of the account and the schedules of a home, as the structure
\* response with body b lists them: body 1 is an account without homes,
\* body 2 a home with one schedule, any further body a home without one
HomesIn(b) == IF b = 1 THEN <<>> ELSE <<"H1">>

SchedulesIn(b, home_id) ==
    IF b = 2 /\ home_id = "H1" THEN <<[id |-> "S1", name |-> "Comfort"]>>
    ELSE <<>>

ScheduleNames == {None, Some("Comfort"), Some("Eco")}

\* the caller returns without a client call; refreshes says whether it asked
\* for a refresh on its way
returns_without_call(c, refreshes) ==
    /\ caller' = [c EXCEPT !.result = "None"]
    /\ refresh_requests' = refreshes
    /\ UNCHANGED <<epc, clientVars>>

\* the caller awaits the client operation o
awaits_call(c, o) ==
    /\ start_request(o)
    /\ caller' = c
    /\ epc' = "awaiting_call"
    /\ refresh_requests' = 0

\* async_set_temperature up to the client call, climate.py lines 285-298
async_set_temperature ==
    /\ epc = "idle" /\ caller = NoCaller
    /\ \E temp \in Temps :
          LET c == Caller("async_set_temperature", "none", temp, 0, "none") IN
          IF temp = None
          THEN returns_without_call(c, 0)
          ELSE awaits_call(c, SetRoomThermpoint("H1", "R1", "manual", temp,
                                                None))
    /\ UNCHANGED coordVars

\* async_set_hvac_mode up to the client call, lines 304-323; target is the
\* setpoint the snapshot holds for the room
async_set_hvac_mode ==
    /\ epc = "idle" /\ caller = NoCaller
    /\ \E hvac_mode \in HVACModes : \E target_temperature \in Temps :
          LET c == Caller("async_set_hvac_mode", hvac_mode, None, 0, "none")
              target == IF target_temperature = None
                           \/ target_temperature = Some(0)
                        THEN Some(DEFAULT_TARGET) ELSE target_temperature
          IN  CASE hvac_mode = "off" ->
                     awaits_call(c, SetRoomThermpoint("H1", "R1", "off", None,
                                                      None))
                [] hvac_mode = "heat" ->
                     awaits_call(c, SetRoomThermpoint("H1", "R1", "manual",
                                                      target, None))
                [] hvac_mode = "auto" ->
                     awaits_call(c, SetThermMode("H1", "schedule", None, None))
                [] OTHER -> returns_without_call(c, 1)
    /\ UNCHANGED coordVars

\* async_set_preset_mode up to the client call, lines 329-351
async_set_preset_mode ==
    /\ epc = "idle" /\ caller = NoCaller
    /\ \E preset_mode \in PresetModes :
          LET c == Caller("async_set_preset_mode", preset_mode, None, 0,
                          "none")
              netatmo_mode == mode_map(preset_mode)
          IN  IF netatmo_mode = None
              THEN returns_without_call(c, 0)
              ELSE awaits_call(c, SetThermMode("H1", netatmo_mode[1], None,
                                               None))
    /\ UNCHANGED coordVars

\* the set_schedule service up to its first client call, __init__.py lines
\* 131-150
async_handle_set_schedule ==
    /\ epc = "idle" /\ caller = NoCaller
    /\ \E schedule_name \in ScheduleNames :
          LET c == Caller("set_schedule",
                          IF schedule_name = None THEN "none"
                          ELSE schedule_name[1], None, 0, "none")
          IN  IF schedule_name = None
              THEN returns_without_call(c, 0)
              ELSE /\ start_request(GetHomesData)
                   /\ caller' = c
                   /\ epc' = "awaiting_schedules"
                   /\ refresh_requests' = 0
    /\ UNCHANGED coordVars

\* async_get_schedules is over: the service looks the schedule up and sets
\* it, lines 150-171 and 177-178
async_handle_set_schedule_lookup ==
    /\ epc = "awaiting_schedules"
    /\ pc = "done"
    /\ LET schedules == IF result.kind = "return" /\ result.value.isdict
                        THEN SchedulesIn(result.value.body, "H1") ELSE <<>>
           found == {i \in 1..Len(schedules) :
                        schedules[i].name = caller.mode}
       IN  IF found = {}
           THEN /\ caller' = [caller EXCEPT !.result = "None"]
                /\ epc' = "idle"
                /\ UNCHANGED clientVars
           ELSE LET schedule_id == schedules[CHOOSE i \in found :
                                       \A j \in found : i <= j].id
                IN  /\ enter_request(SetThermMode("H1", "schedule", None,
                                                  Some(schedule_id)))
                    /\ caller' = caller
                    /\ epc' = "awaiting_call"
    /\ UNCHANGED <<refresh_requests, coordVars>>

\* the mutation call is over and a refresh is asked for whether it
\* returned or raised
entity_after_call_finally ==
    /\ epc = "awaiting_call"
    /\ pc = "done"
    /\ refresh_requests' = 1
    /\ caller' = [caller EXCEPT !.result = "None"]
    /\ epc' = "idle"
    /\ UNCHANGED <<coordVars, clientVars>>

\* the mutation call is over: a refresh is asked for when it returned, the
\* error is logged when it raised; climate.py lines 300-302, 325-327 and
\* 353-358, __init__.py lines 172-178
entity_after_call ==
    /\ epc = "awaiting_call"
    /\ pc = "done"
    /\ refresh_requests' = IF result.kind = "return" THEN 1 ELSE 0
    /\ caller' = [caller EXCEPT !.result = "None"]
    /\ epc' = "idle"
    /\ UNCHANGED <<coordVars, clientVars>>

NextEntity ==
    \/ async_set_temperature
    \/ async_set_hvac_mode
    \/ async_set_preset_mode
    \/ async_handle_set_schedule
    \/ async_handle_set_schedule_lookup
    \/ entity_after_call
    \/ check_rate_limit
    \/ do_request(CoreOutcomes)
    \/ backoff_wake

SpecEntity == InitCoord /\ [][NextEntity]_vars

----------------------------------------------------------------------------
(* Setting up the config entry: async_setup_entry, __init__.py lines 25-95 *)

\* what async_setup_entry does with an exception raised inside its try
\* block, lines 90-95
setup_except(ty) ==
    IF ty = "NetatmoAuthError" THEN "ConfigEntryAuthFailed" ELSE "False"

\* async_setup_entry up to the structure fetch, lines 34-45; the OAuth
\* implementation of the entry may be unavailable
async_setup_entry ==
    /\ epc = "idle" /\ caller = NoCaller
    /\ LET c == Caller("async_setup_entry", "none", None, 0, "none") IN
       \/ /\ caller' = [c EXCEPT !.result = setup_except("ValueError")]
          /\ UNCHANGED <<epc, clientVars>>
       \/ /\ start_request(GetHomesData)
          /\ caller' = c
          /\ epc' = "awaiting_homes"
    /\ UNCHANGED <<refresh_requests, coordVars>>

\* the structure fetch is over, lines 45-59: the first home is taken and
\* the coordinator's first refresh is awaited
async_setup_entry_homes ==
    /\ epc = "awaiting_homes"
    /\ pc = "done"
    /\ IF result.kind = "raise"
       THEN /\ caller' = [caller EXCEPT !.result = setup_except(result.type)]
            /\ epc' = "idle"
            /\ UNCHANGED cpc
       ELSE IF HomesIn(result.value.body) = <<>>
       THEN /\ caller' = [caller EXCEPT
                             !.result = setup_except("ConfigEntryAuthFailed")]
            /\ epc' = "idle"
            /\ UNCHANGED cpc
       ELSE /\ cpc' = "homes_data"
            /\ epc' = "awaiting_first_refresh"
            /\ UNCHANGED caller
    /\ UNCHANGED <<data, consecutive_update_failures, last_successful_update,
                   update_interval, webhook_active, homes_data,
                   refresh_result, failed_in_a_row, hpc, handler_result,
                   refresh_requests, clientVars>>

\* the first refresh is over, lines 59-95: a failed one raises
\* ConfigEntryNotReady; the webhook, the platforms and the services are
\* set up, any of which may raise
async_setup_entry_finish ==
    /\ epc = "awaiting_first_refresh"
    /\ cpc = "idle"
    /\ IF refresh_result.kind = "raise"
       THEN caller' = [caller EXCEPT
                          !.result = setup_except("ConfigEntryNotReady")]
       ELSE \E raised \in BOOLEAN :
               caller' = [caller EXCEPT
                             !.result = IF raised
                                        THEN setup_except("ValueError")
                                        ELSE "True"]
    /\ epc' = "idle"
    /\ UNCHANGED <<refresh_requests, coordVars, clientVars>>

NextSetup ==
    \/ async_setup_entry
    \/ async_setup_entry_homes
    \/ async_setup_entry_finish
    \/ check_rate_limit
    \/ do_request(CoreOutcomes)
    \/ backoff_wake
    \/ async_update_data_homes
    \/ async_update_data_status

SpecSetup == InitCoord /\ [][NextSetup]_vars

----------------------------------------------------------------------------
(* A refresh together with the client calls it makes: _async_update_data,  *)
(* coordinator.py lines 96-145, over async_request.                        *)

RefreshOutcomes ==
    {TokenFailure, Timeout,
     Response(Resp(200, OkText(2), NoHeaders)),
     Response(Resp(500, Garbage, NoHeaders))}

\* a refresh starts and calls async_get_homes_data, line 98
refresh_start ==
    /\ cpc = "idle"
    /\ pc \in {"idle", "done"}
    /\ calls_made + 2 <= MaxFetches
    /\ enter_request(GetHomesData)
    /\ cpc' = "homes_data"
    /\ UNCHANGED <<data, consecutive_update_failures, last_successful_update,
                   update_interval, webhook_active, homes_data,
                   refresh_result, failed_in_a_row, hpc, handler_result,
                   callerVars>>

\* the structure fetch is over and the status fetch is made whether it
\* returned or raised
refresh_homes_fetched_both ==
    /\ cpc = "homes_data"
    /\ pc = "done"
    /\ homes_data' = result.value
    /\ cpc' = "home_status"
    /\ enter_request(GetHomeStatus("H1"))
    /\ UNCHANGED <<data, consecutive_update_failures,
                   last_successful_update, update_interval,
                   webhook_active, refresh_result, failed_in_a_row, hpc,
                   handler_result, callerVars>>

\* the structure fetch is over, lines 98-99 and 117-145: when it returned,
\* async_get_home_status is called
refresh_homes_fetched ==
    /\ cpc = "homes_data"
    /\ pc = "done"
    /\ IF result.kind = "return"
       THEN /\ homes_data' = result.value
            /\ cpc' = "home_status"
            /\ enter_request(GetHomeStatus("H1"))
            /\ UNCHANGED <<data, consecutive_update_failures,
                           last_successful_update, update_interval,
                           webhook_active, refresh_result, failed_in_a_row,
                           hpc, handler_result, callerVars>>
       ELSE async_update_data_failed(result)

\* the status fetch is over, lines 99-145
refresh_status_fetched ==
    /\ cpc = "home_status"
    /\ pc = "done"
    /\ IF result.kind = "return"
       THEN async_update_data_success(result)
       ELSE async_update_data_failed(result)

NextRefresh ==
    \/ refresh_start
    \/ refresh_homes_fetched
    \/ refresh_status_fetched
    \/ check_rate_limit
    \/ do_request(RefreshOutcomes)
    \/ backoff_wake

SpecRefresh == InitCoord /\ [][NextRefresh]_vars


----------------------------------------------------------------------------
(* Properties of the client *)

Last(q) == q[Len(q)]

Is5xx(o) == o.kind = "response" /\ o.resp.status >= 500

IsOk2xx(o) ==
    /\ o.kind = "response"
    /\ o.resp.status \in 200..299
    /\ o.resp.text.wf
    /\ o.resp.text.value.isdict
    /\ o.resp.text.value.status = Some("ok")

\* C1: a call that meets k <= 3 consecutive 5xx responses and then a 2xx
\* response with envelope status "ok" does not end before that response,
\* returns its parsed body, and leaves the consecutive-failure counter at 0
\* whatever the counter was before.
C1_ServerErrorsThenOk ==
    (pc = "done" /\ \A i \in 1..(Len(hist) - 1) : Is5xx(hist[i]))
        => /\ (Is5xx(Last(hist)) => Len(hist) > 3)
           /\ (IsOk2xx(Last(hist)) /\ Len(hist) - 1 <= 3)
                 => /\ result.kind = "return"
                    /\ result.value = Last(hist).resp.text.value
                    /\ result.value.body \in Bodies
                    /\ consecutive_failures = 0

C1_Witness ==
    /\ pc = "done"
    /\ Len(hist) = 4
    /\ \A i \in 1..3 : Is5xx(hist[i])
    /\ IsOk2xx(hist[4])
    /\ failures_before > 0
    /\ result.kind = "return"
    /\ consecutive_failures = 0

\* the vendor error code of a response with HTTP status < 400 and an
\* envelope status other than "ok", as a number; -1 when there is none
VendorCode(o) ==
    LET e == o.resp.text.value.error IN
    IF ~e.hascode THEN -1
    ELSE IF e.code.t = "int" THEN e.code.n
    ELSE IF e.code.t = "str" /\ IsIntString(e.code.s) THEN IntOf(e.code.s)
    ELSE -1

IsVendorError(o) ==
    /\ o.kind = "response"
    /\ o.resp.status < 400
    /\ o.resp.text.wf
    /\ o.resp.text.value.isdict
    /\ o.resp.text.value.status # Some("ok")
    /\ o.resp.text.value.error.isdict

IsTransientVendorError(o) == IsVendorError(o) /\ VendorCode(o) \in {9, 10, 13, 26}

IsFatalVendorError(o) == IsVendorError(o) /\ VendorCode(o) \notin {9, 10, 13, 26}

\* C2: a call that meets only vendor errors with a transient code ends after
\* MAX_RETRIES + 1 attempts by raising NetatmoAPIError; a vendor error with a
\* code outside the set ends the call at once with NetatmoAPIError, so no
\* attempt follows it.
C2_TransientCodesRetried ==
    /\ (pc = "done" /\ \A i \in 1..Len(hist) : IsTransientVendorError(hist[i]))
          => /\ Len(hist) = MAX_RETRIES + 1
             /\ result.kind = "raise"
             /\ result.type = "NetatmoAPIError"
    /\ \A i \in 1..Len(hist) :
          IsFatalVendorError(hist[i])
             => /\ i = Len(hist)
                /\ pc = "done"
                /\ result.kind = "raise"
                /\ result.type = "NetatmoAPIError"
                /\ Len(sent) = i

C2_Witness ==
    /\ pc = "done"
    /\ Len(hist) = 4
    /\ \A i \in 1..4 : IsTransientVendorError(hist[i])
    /\ VendorCode(hist[1]) = 9
    /\ VendorCode(hist[4]) = 10
    /\ result.type = "NetatmoAPIError"

\* C3: of 41 attempts issued back-to-back by one sequential caller the first
\* 40 pass the rate-limit check without waiting; the 41st, finding the 40
\* earlier timestamps in the window, waits window - age of the oldest + 0.5 s
\* and is recorded only when the first timestamp has left the window.
C3_FortyFirstWaits ==
    [][/\ (calls_made <= RATE_LIMIT_MAX_REQUESTS => pc' # "rate_sleep")
       /\ (/\ pc = "check" /\ pc' # "check"
           /\ calls_made = RATE_LIMIT_MAX_REQUESTS + 1
           /\ Len(request_timestamps) = RATE_LIMIT_MAX_REQUESTS
           /\ now - request_timestamps[1] < Ticks(RATE_LIMIT_WINDOW))
             => /\ pc' = "rate_sleep"
                /\ wait_time' = Ticks(RATE_LIMIT_WINDOW)
                                  - (now - request_timestamps[1]) + 1
                /\ Len(request_timestamps') = RATE_LIMIT_MAX_REQUESTS
       /\ (pc = "rate_sleep" /\ pc' # "rate_sleep")
             => /\ now' = now + wait_time
                /\ now' - request_timestamps[1] >= Ticks(RATE_LIMIT_WINDOW)
                /\ request_timestamps' = Append(request_timestamps, now')
                /\ sent' = sent
      ]_vars

C3_Witness ==
    /\ calls_made = RATE_LIMIT_MAX_REQUESTS + 1
    /\ pc = "done"
    /\ Len(request_timestamps) = RATE_LIMIT_MAX_REQUESTS + 1
    /\ request_timestamps[1] > 0
    /\ Last(request_timestamps) - request_timestamps[1]
          = Ticks(RATE_LIMIT_WINDOW) + 1
    /\ Len(sent) = 1

IsSetRoom(o) == o.name = "async_set_room_thermpoint"

\* C7: a set-room-setpoint call whose first response is a 200 with envelope
\* status "ok" issues exactly one request: a POST to setroomthermpoint with
\* a bearer Authorization header and a body holding home_id, room_id and
\* mode, temp iff a temperature was given and endtime iff an end time was
\* given; it returns the parsed response unchanged.
C7_SetRoomThermpointRequest ==
    (pc = "done" /\ IsSetRoom(op) /\ IsOk2xx(hist[1]) /\ hist[1].resp.status = 200)
        => /\ Len(sent) = 1
           /\ sent[1].method = "POST"
           /\ sent[1].url = <<API_BASE_URL, "setroomthermpoint">>
           /\ sent[1].headers.Authorization = <<"Bearer", oauth_token>>
           /\ LET form == sent[1].data[1] IN
              /\ {"home_id", "room_id", "mode"} \subseteq DOMAIN form
              /\ DOMAIN form \subseteq
                    {"home_id", "room_id", "mode", "temp", "endtime"}
              /\ form.home_id = op.home_id
              /\ form.room_id = op.room_id
              /\ form.mode = op.mode
              /\ ("temp" \in DOMAIN form) <=> (op.temp # None)
              /\ ("temp" \in DOMAIN form) => form.temp = op.temp[1]
              /\ ("endtime" \in DOMAIN form) <=> (op.endtime # None)
              /\ ("endtime" \in DOMAIN form) => form.endtime = op.endtime[1]
           /\ result = Returned(hist[1].resp.text.value)

C7_Witness ==
    /\ pc = "done"
    /\ op = SetRoomThermpoint("H1", "R1", "manual", Some(43), None)
    /\ Len(sent) = 1
    /\ sent[1].data = Some([home_id |-> "H1", room_id |-> "R1",
                            mode |-> "manual", temp |-> 43])
    /\ result.kind = "return"

\* C10 as claimed: no entry of the request-timestamp window is older than
\* the window length relative to the current time.
C10_NoEntryOlderThanWindow ==
    \A i \in 1..Len(request_timestamps) :
        now - request_timestamps[i] <= Ticks(RATE_LIMIT_WINDOW)

\* C10 as amended: no entry of the request-timestamp window was as old as
\* the window length at the time of the most recent rate-limit check; every
\* entry was either kept by that check's pruning or recorded after it.
C10_NoEntryOlderAtLastCheck ==
    \A i \in 1..Len(request_timestamps) :
        last_check - request_timestamps[i] < Ticks(RATE_LIMIT_WINDOW)

C10_Witness ==
    /\ pc = "request"
    /\ last_check > Ticks(RATE_LIMIT_WINDOW)
    /\ failures_before > 0
    /\ Len(request_timestamps) = 2
    /\ request_timestamps[1] > 0

\* C11: when the token fetch of an attempt fails, first attempt or retry,
\* the call ends in that step by raising NetatmoAuthError: no HTTP request
\* is issued for the attempt, no time passes and no sleep is scheduled, and
\* no attempt follows.
C11_TokenFailureFatal ==
    [][/\ (Len(hist') > Len(hist) /\ Last(hist') = TokenFailure)
             => /\ pc' = "done"
                /\ result'.kind = "raise"
                /\ result'.type = "NetatmoAuthError"
                /\ sent' = sent
                /\ now' = now
                /\ wait_time' = wait_time
       /\ (Len(hist) > 0 /\ Last(hist) = TokenFailure)
             => /\ hist' = hist
                /\ sent' = sent
                /\ pc' = "done"
      ]_vars

C11_Witness ==
    /\ pc = "done"
    /\ Len(hist) = 3
    /\ hist[3] = TokenFailure
    /\ Len(sent) = 2
    /\ result.type = "NetatmoAuthError"

Is401(o) == o.kind = "response" /\ o.resp.status = 401

Is403(o) == o.kind = "response" /\ o.resp.status = 403

\* the body is a JSON object whose error member is absent or an object
HasErrorObject(o) ==
    /\ o.resp.text.wf
    /\ o.resp.text.value.isdict
    /\ o.resp.text.value.error.isdict

IsTransient403(o) ==
    Is403(o) /\ HasErrorObject(o) /\ VendorCode(o) \in {9, 10, 13, 26}

\* a 403 with a code outside the transient set, with no code, or with a
\* body that is no JSON
IsFatal403(o) ==
    /\ Is403(o)
    /\ \/ ~o.resp.text.wf
       \/ HasErrorObject(o) /\ VendorCode(o) \notin {9, 10, 13, 26}

RaisedAuthError ==
    pc = "done" /\ result.kind = "raise" /\ result.type = "NetatmoAuthError"

Is429(o) == o.kind = "response" /\ o.resp.status = 429

\* the names under which a Retry-After header may arrive
RetryAfterNames == {"Retry-After", "retry-after", "RETRY-AFTER", "Retry-after"}

\* the values of the Retry-After headers of a response, in any spelling
RetryAfterValues(o) ==
    {o.resp.headers[k] : k \in DOMAIN o.resp.headers \cap RetryAfterNames}

\* the header is absent, or carries a number of seconds
RetryAfterIsSeconds(o) == \A v \in RetryAfterValues(o) : IsIntString(v)

\* the header is absent, or spelled "Retry-After" or "retry-after"
RetryAfterPlainlySpelled(o) ==
    DOMAIN o.resp.headers \subseteq {"Retry-After", "retry-after"}

\* the seconds the claims make the client wait after a 429
ClaimedWait(o) ==
    IF RetryAfterValues(o) = {} THEN Min(60, 30)
    ELSE Min(IntOf(CHOOSE v \in RetryAfterValues(o) : TRUE), 30)

C13_Retried ==
    \A i \in 1..Len(hist) :
        (Is429(hist[i]) /\ RetryAfterIsSeconds(hist[i]))
           => /\ i <= MAX_RETRIES + 1
              /\ (i <= MAX_RETRIES /\ i = Len(hist)) => pc # "done"
              /\ (i = Len(hist) /\ pc = "backoff"
                    /\ RetryAfterPlainlySpelled(hist[i]))
                    => wait_time = Ticks(ClaimedWait(hist[i]))
              /\ i = MAX_RETRIES + 1
                    => /\ i = Len(hist)
                       /\ pc = "done"
                       /\ result.kind = "raise"
                       /\ result.type = "NetatmoRateLimitError"

IsOther4xx(o) ==
    /\ o.kind = "response"
    /\ o.resp.status \in 400..499
    /\ o.resp.status \notin {401, 403, 429}

\* C15: a response with a status in 400..499 other than 401, 403 and 429
\* ends the call in the step that receives it, on the first attempt or on
\* a retry: NetatmoAPIError is raised after the one request of that
\* attempt, no time passes, no sleep is scheduled and no attempt follows.
C15_ClientErrorFatal ==
    [][/\ (Len(hist') > Len(hist) /\ IsOther4xx(Last(hist')))
             => /\ pc' = "done"
                /\ result'.kind = "raise"
                /\ result'.type = "NetatmoAPIError"
                /\ Len(sent') = Len(sent) + 1
                /\ now' = now
                /\ wait_time' = wait_time
       /\ (Len(hist) > 0 /\ IsOther4xx(Last(hist)))
             => /\ hist' = hist
                /\ sent' = sent
                /\ pc' = "done"
      ]_vars

C15_Witness ==
    /\ pc = "done"
    /\ Len(hist) = 3
    /\ Is5xx(hist[1])
    /\ hist[2] = Timeout
    /\ hist[3] = Response(Resp(400, ErrText(ErrCode(JInt(9))), NoHeaders))
    /\ Len(sent) = 3
    /\ result.type = "NetatmoAPIError"

IsTransportFailure(o) == o.kind \in {"timeout", "connection_error"}

\* C16: a timeout or connection error on one of the first 3 attempts does
\* not end the call; a call whose 4 attempts all time out raises
\* NetatmoTimeoutError, and a call whose 4 attempts all end in a
\* connection error raises NetatmoAPIError itself.
C16_TransportFailures ==
    /\ \A i \in 1..Len(hist) :
          IsTransportFailure(hist[i])
             => /\ i <= MAX_RETRIES + 1
                /\ (i <= MAX_RETRIES /\ i = Len(hist)) => pc # "done"
                /\ i = MAX_RETRIES + 1
                      => (i = Len(hist) /\ pc = "done" /\ result.kind = "raise")
    /\ (pc = "done" /\ \A i \in 1..Len(hist) : hist[i] = Timeout)
          => /\ Len(hist) = MAX_RETRIES + 1
             /\ Len(sent) = MAX_RETRIES + 1
             /\ result.type = "NetatmoTimeoutError"
    /\ (pc = "done" /\ \A i \in 1..Len(hist) : hist[i] = ConnectionError)
          => /\ Len(hist) = MAX_RETRIES + 1
             /\ Len(sent) = MAX_RETRIES + 1
             /\ result.type = "NetatmoAPIError"

C16_Witness ==
    /\ pc = "done"
    /\ Len(hist) = MAX_RETRIES + 1
    /\ \A i \in 1..(MAX_RETRIES + 1) : hist[i] = ConnectionError
    /\ last_error = "connection_error"
    /\ result.kind = "raise"
    /\ result.type = "NetatmoAPIError"

\* an outcome of one of the retryable branches
IsRetryable(o) ==
    \/ Is5xx(o)
    \/ Is429(o) /\ RetryAfterIsSeconds(o)
    \/ IsTransientVendorError(o)
    \/ IsTransient403(o)
    \/ IsTransportFailure(o)

\* C17: a call that returns leaves the consecutive-failure counter at 0;
\* a call that ends because its last allowed attempt met a retryable
\* outcome (5xx, 429, transient vendor code, transient 403, timeout,
\* connection error) leaves it exactly 1 above its value before the call,
\* however many attempts failed.
C17_FailureCounter ==
    /\ (pc = "done" /\ result.kind = "return") => consecutive_failures = 0
    /\ (pc = "done" /\ Len(hist) = MAX_RETRIES + 1 /\ IsRetryable(Last(hist)))
          => /\ result.kind = "raise"
             /\ consecutive_failures = failures_before + 1
    /\ pc \notin {"idle", "done"} => consecutive_failures = failures_before

C17_Witness ==
    /\ pc = "done"
    /\ Len(hist) = MAX_RETRIES + 1
    /\ Is5xx(hist[1])
    /\ Is429(hist[2])
    /\ hist[3] = Timeout
    /\ IsTransient403(hist[4])
    /\ failures_before = MaxPriorFailures
    /\ consecutive_failures = MaxPriorFailures + 1

\* C18: a call never makes more than 4 attempts or HTTP requests, and once
\* started it ends, by returning or raising, whatever the outcomes of its
\* attempts.
C18_Terminates ==
    /\ [](Len(sent) <= 4 /\ Len(hist) <= 4 /\ attempt < 4)
    /\ (pc = "check") ~> (pc = "done" /\ result.kind \in {"return", "raise"})

C18_Witness ==
    /\ pc = "done"
    /\ Len(sent) = 4
    /\ attempt = 3
    /\ result.kind = "return"
    /\ request_timestamps[1] > 0

\* C14: after a 429 that is retried, whatever the letter case of the name
\* of its Retry-After header carrying value v, the pending wait is
\* min(v, 30) seconds.
C14_RetryAfterAnyCase ==
    (/\ pc = "backoff"
     /\ Is429(Last(hist))
     /\ RetryAfterValues(Last(hist)) # {}
     /\ RetryAfterIsSeconds(Last(hist)))
        => wait_time = Ticks(ClaimedWait(Last(hist)))

----------------------------------------------------------------------------
(* Properties of the coordinator and of the webhook handler *)

\* a refresh ends in this step
RefreshEnds == cpc # "idle" /\ cpc' = "idle"

SoftErrors == {"NetatmoAPIError", "NetatmoRateLimitError",
               "NetatmoTimeoutError"}

\* C4: when a snapshot exists and a refresh fails with a NetatmoAPIError
\* that is no authentication error, then with a failure streak (this
\* failure included) of at most 3 the refresh returns the previous snapshot
\* with stale = true, update_successful = false, last_error set to the error
\* text and homes_data, home_status and timestamp unchanged; with a longer
\* streak it raises UpdateFailed.
C4_SoftDegradation ==
    [][(RefreshEnds /\ data.present /\ refresh_result'.error \in SoftErrors)
          => IF failed_in_a_row' <= 3
             THEN /\ refresh_result'.kind = "return"
                  /\ data'.present
                  /\ data'.stale = Some(TRUE)
                  /\ data'.update_successful = FALSE
                  /\ data'.last_error # None
                  /\ data'.last_error[1][1] = refresh_result'.error
                  /\ data'.homes_data = data.homes_data
                  /\ data'.home_status = data.home_status
                  /\ data'.timestamp = data.timestamp
             ELSE refresh_result'.kind = "raise"
      ]_vars

C4_Witness ==
    /\ cpc = "idle"
    /\ refresh_result.kind = "return"
    /\ refresh_result.error = "NetatmoTimeoutError"
    /\ failed_in_a_row = 3
    /\ data.stale = Some(TRUE)
    /\ data.last_error = Some(<<"NetatmoTimeoutError", "none">>)
    /\ data.timestamp < now

\* the interval the claim gives for k failed refreshes in a row, in ticks
ClaimedInterval(k) ==
    Min((Ticks(60) * Pow(3, Min(k, 5))) \div Pow(2, Min(k, 5)), Ticks(300))

\* C5: when a refresh ends as the k-th failed refresh in a row, k >= 1, the
\* polling interval is min(60 * 1.5^min(k,5), 300) seconds, 90 s for k = 1;
\* when a refresh ends in success the interval is exactly 60 s, whatever
\* the streak and the interval were before.
C5_AdaptiveInterval ==
    [][RefreshEnds
          => /\ failed_in_a_row' >= 1
                  => update_interval' = ClaimedInterval(failed_in_a_row')
             /\ failed_in_a_row' = 1 => update_interval' = Ticks(90)
             /\ failed_in_a_row' = 0 => update_interval' = Ticks(60)
      ]_vars

C5_Witness ==
    /\ cpc = "idle"
    /\ refresh_result.kind = "return"
    /\ refresh_result.error = "none"
    /\ refresh_result.previous_failures >= 4
    /\ failed_in_a_row = 0
    /\ update_interval = Ticks(60)
    /\ ~webhook_active

\* C6: webhook_handler answers every request with status 200: no run ends
\* with an exception escaping it or with another status, whether the body
\* was a JSON object, could not be parsed, or the coordinator call raised;
\* once the coordinator has been reached and the handler is not waiting for
\* a refresh, it has answered.
C6_WebhookAlways200 ==
    /\ handler_result.kind # "raise"
    /\ handler_result.kind = "response" => handler_result.status = 200
    /\ (webhook_active /\ hpc = "idle") => handler_result.kind = "response"

C6_Witness ==
    /\ hpc = "idle"
    /\ webhook_active
    /\ handler_result = WebResponse(200, "Error processed")
    /\ refresh_result.kind = "raise"

\* C19: a refresh that fails with NetatmoAuthError or with an exception
\* that is no Netatmo error ends by raising UpdateFailed, with the failure
\* streak exactly 1 above its value before; it never returns the snapshot
\* marked stale, whether or not a snapshot exists and however short the
\* streak.
C19_AuthFailureSurfaces ==
    [][(RefreshEnds
        /\ refresh_result'.error \in {"NetatmoAuthError"} \cup OtherErrors)
          => /\ refresh_result'.kind = "raise"
             /\ consecutive_update_failures' = consecutive_update_failures + 1
             /\ data'.stale = data.stale
             /\ data'.update_successful = data.update_successful
      ]_vars

C19_Witness ==
    /\ cpc = "idle"
    /\ refresh_result.kind = "raise"
    /\ refresh_result.error = "NetatmoAuthError"
    /\ refresh_result.previous_failures = 0
    /\ consecutive_update_failures = 1
    /\ data.present
    /\ data.update_successful
    /\ data.stale = None

\* C20: a refresh that ends by raising UpdateFailed leaves the snapshot and
\* the time of the last successful update as they were when it ended; of
\* the coordinator's state it changes the failure streak and the polling
\* interval only.
C20_HardFailureFrame ==
    [][/\ (RefreshEnds /\ refresh_result'.kind = "raise")
             => /\ data' = data
                /\ last_successful_update' = last_successful_update
                /\ webhook_active' = webhook_active
                /\ consecutive_update_failures' # consecutive_update_failures
       /\ (cpc # "idle" /\ cpc' # "idle")
             => /\ data' = data
                /\ last_successful_update' = last_successful_update
                /\ consecutive_update_failures' = consecutive_update_failures
      ]_vars

C20_Witness ==
    /\ cpc = "idle"
    /\ refresh_result.kind = "raise"
    /\ refresh_result.error = "NetatmoAPIError"
    /\ failed_in_a_row = 4
    /\ data.present
    /\ data.stale = Some(TRUE)
    /\ last_successful_update # None
    /\ last_successful_update[1] < now

\* C21: the live snapshot changes only in the step in which a refresh
\* returns; a snapshot that is present holds a structure and a status; a
\* successful refresh publishes the structure and the status it fetched
\* itself, together; while a refresh is suspended and when it fails, the
\* structure and the status of the snapshot stay those of the earlier
\* refresh, so a structure whose status fetch failed never shows.
C21_SnapshotAtomic ==
    [][/\ data' # data => (RefreshEnds /\ refresh_result'.kind = "return")
       /\ data'.present => (data'.homes_data.isdict /\ data'.home_status.isdict)
       /\ (RefreshEnds /\ refresh_result'.error = "none")
             => /\ data'.present
                /\ cpc = "home_status"
                /\ data'.homes_data = homes_data
                /\ homes_data.isdict
       /\ (RefreshEnds /\ refresh_result'.error # "none")
             => /\ data'.present = data.present
                /\ data'.homes_data = data.homes_data
                /\ data'.home_status = data.home_status
       /\ ~RefreshEnds
             => /\ data'.homes_data = data.homes_data
                /\ data'.home_status = data.home_status
      ]_vars

C21_Witness ==
    /\ cpc = "home_status"
    /\ data.present
    /\ homes_data.isdict
    /\ homes_data.body # data.homes_data.body
    /\ data.home_status.body = data.homes_data.body
    /\ refresh_result.kind = "return"
    /\ refresh_result.error = "NetatmoAPIError"

C24_IsDataStale ==
    [][(caller' # caller /\ caller'.name = "is_data_stale")
          => /\ caller'.result \in {"True", "False"}
             /\ caller'.result = "True"
                   <=> \/ ~data.present
                       \/ data.stale = Some(TRUE)
                       \/ now - data.timestamp > Ticks(caller'.max_age)
             /\ coordVars' = coordVars
             /\ clientVars' = clientVars
      ]_vars

C24_Witness ==
    /\ caller.name = "is_data_stale"
    /\ caller.result = "False"
    /\ caller.max_age = 1
    /\ data.present
    /\ data.stale = None
    /\ now - data.timestamp = Ticks(1)

\* C25: async_force_refresh returns true exactly when the refresh it
\* triggered succeeded, and false when that refresh failed, hard or soft,
\* whether or not a snapshot is still cached.
C25_ForceRefreshResult ==
    [][(epc = "awaiting_refresh" /\ epc' = "idle")
          => (caller'.result = "True"
                <=> (refresh_result.kind = "return"
                     /\ refresh_result.error = "none"))
      ]_vars

\* the body parameters of the i-th request sent, when it is a request to
\* the endpoint e
SentTo(i, e) == sent[i].url = <<API_BASE_URL, e>> /\ sent[i].data # None

\* C26: every set-home-mode request sent with mode "schedule" carries a
\* schedule identifier and every set-room-setpoint request sent with mode
\* "manual" carries a temperature, whichever caller made it.
C26_RequiredParameters ==
    \A i \in 1..Len(sent) :
       /\ (SentTo(i, ENDPOINT_SETTHERMMODE)
             /\ sent[i].data[1]["mode"] = "schedule")
            => "schedule_id" \in DOMAIN sent[i].data[1]
       /\ (SentTo(i, ENDPOINT_SETROOMTHERMPOINT)
             /\ sent[i].data[1]["mode"] = "manual")
            => "temp" \in DOMAIN sent[i].data[1]

EntityMutations ==
    {"async_set_temperature", "async_set_hvac_mode", "async_set_preset_mode"}

\* C27: an entity mutation asks for no refresh before its client call is
\* over; once the call has returned it has asked for exactly one, once the
\* call has raised it has asked for none, and in both cases the mutation
\* itself returns normally.
C27_RefreshAfterMutation ==
    (caller.name \in EntityMutations /\ op # NoOp)
       => /\ epc = "awaiting_call" => refresh_requests = 0
          /\ pc # "done" => epc = "awaiting_call"
          /\ epc = "idle"
                => /\ pc = "done"
                   /\ caller.result = "None"
                   /\ result.kind = "return" => refresh_requests = 1
                   /\ result.kind = "raise" => refresh_requests = 0

C27_Witness ==
    /\ caller.name = "async_set_hvac_mode"
    /\ caller.mode = "heat"
    /\ epc = "idle"
    /\ caller.result = "None"
    /\ result.kind = "raise"
    /\ result.type = "NetatmoTimeoutError"
    /\ Len(hist) = MAX_RETRIES + 1
    /\ refresh_requests = 0

\* C28: whatever the status, headers and body of the responses, a client
\* operation that fails raises NetatmoAuthError, NetatmoRateLimitError,
\* NetatmoTimeoutError or NetatmoAPIError and nothing else.
C28_TypedErrorsOnly ==
    (pc = "done" /\ result.kind = "raise") => result.type \in NetatmoErrors

\* C29, as claimed: after a 403 with a transient vendor code the client
\* makes one further attempt, and a second consecutive transient-code 403
\* ends the call with NetatmoAuthError.
C29_Transient403RetriedOnce ==
    \A i \in 2..Len(hist) :
        (IsTransient403(hist[i - 1]) /\ IsTransient403(hist[i]))
           => (i = Len(hist) /\ RaisedAuthError)

\* C29, amended: a 403 with a transient vendor code is retried under the
\* ordinary budget.  On each of the first three attempts the client sleeps
\* min(2 * 2^attempt, 30) seconds and goes on to a further attempt; such a
\* 403 ends the call, with NetatmoAuthError, on the fourth attempt only.
C29_Transient403Budget ==
    \A i \in 1..Len(hist) :
        IsTransient403(hist[i])
           => /\ i <= MAX_RETRIES => (i < Len(hist) \/ pc # "done")
              /\ (i = Len(hist) /\ pc = "backoff")
                    => wait_time = Ticks(Min(2 * Pow2(i - 1), 30))
              /\ (i = Len(hist) /\ pc = "done")
                    => (i = MAX_RETRIES + 1 /\ RaisedAuthError)

C29_Witness ==
    /\ Len(hist) = 3
    /\ IsTransient403(hist[1])
    /\ IsTransient403(hist[2])
    /\ IsOk2xx(hist[3])
    /\ pc = "done"
    /\ result.kind = "return"

\* C30: async_setup_entry ends with ConfigEntryAuthFailed when the
\* structure response lists no homes and when a NetatmoAuthError occurs
\* during setup, on the structure fetch or in the first refresh; it returns
\* False only after another error.
C30_SetupFailures ==
    (caller.name = "async_setup_entry" /\ caller.result # "none")
       => /\ (result.kind = "return" /\ HomesIn(result.value.body) = <<>>)
                => caller.result = "ConfigEntryAuthFailed"
          /\ (result.kind = "raise" /\ result.type = "NetatmoAuthError")
                => caller.result = "ConfigEntryAuthFailed"
          /\ refresh_result.error = "NetatmoAuthError"
                => caller.result = "ConfigEntryAuthFailed"

\* C8: once a refresh attempt has ended, the failure streak is zero if and
\* only if the most recent refresh attempt succeeded.
C8_StreakZeroIffLastSucceeded ==
    refresh_result.kind # "none"
        => (consecutive_update_failures = 0 <=> refresh_result.error = "none")

C8_Witness ==
    /\ refresh_result.kind = "raise"
    /\ refresh_result.error = "NetatmoAuthError"
    /\ refresh_result.previous_failures = 1
    /\ consecutive_update_failures = 2
    /\ webhook_active
    /\ data.present

\* C9: the timestamp of the live snapshot never decreases, and a snapshot
\* once present stays present.
C9_TimestampMonotone ==
    [][data.present => (data'.present /\ data'.timestamp >= data.timestamp)]_vars

C9_Witness ==
    /\ data.present
    /\ data.update_successful
    /\ data.timestamp = now
    /\ data.timestamp > 0
    /\ refresh_result.previous_failures > 0
    /\ refresh_result.error = "none"
    /\ webhook_active

----------------------------------------------------------------------------
\* an outcome of one of the branches that back off exponentially
IsBackoffBranch(o) ==
    \/ Is5xx(o)
    \/ IsTransientVendorError(o)
    \/ IsTransient403(o)
    \/ IsTransportFailure(o)

\* C31: when attempt a ends in a server error, a transient vendor code, a
\* transient 403, a timeout or a connection error and is retried, a is 0, 1
\* or 2 and the wait is 2, 4 or 8 seconds, the same in every branch; it is
\* longer than the wait after any earlier attempt and at most 30 seconds,
\* and the call never waits once its fourth attempt has been made.
C31_BackoffSchedule ==
    [][/\ (pc = "request" /\ pc' = "backoff" /\ IsBackoffBranch(Last(hist')))
            => /\ attempt \in 0..2
               /\ wait_time' = Ticks(CASE attempt = 0 -> 2
                                       [] attempt = 1 -> 4
                                       [] OTHER -> 8)
               /\ \A b \in 0..(attempt - 1) :
                     wait_time' > Ticks(Min(2 * Pow2(b), 30))
               /\ wait_time' <= Ticks(30)
       /\ Len(hist') = 4 => pc' # "backoff"
      ]_vars

C31_Witness ==
    /\ pc = "backoff"
    /\ attempt = 2
    /\ wait_time = Ticks(8)
    /\ Len(hist) = 3
    /\ Is5xx(hist[1])
    /\ IsTransportFailure(hist[2])
    /\ IsTransient403(hist[3])

\* C32: a refresh calls async_get_home_status only when its
\* async_get_homes_data has returned; a refresh whose structure fetch raised
\* ends as a failure with no status request sent; and a refresh ends as a
\* success only when both fetches returned.
C32_StructureBeforeStatus ==
    [][/\ (calls_made' # calls_made /\ op'.name = "async_get_home_status")
            => /\ cpc = "homes_data"
               /\ op.name = "async_get_homes_data"
               /\ pc = "done"
               /\ result.kind = "return"
       /\ (RefreshEnds /\ op.name = "async_get_homes_data")
            => /\ result.kind = "raise"
               /\ refresh_result'.error # "none"
               /\ \A i \in 1..Len(sent') :
                     sent'[i].url # <<API_BASE_URL, ENDPOINT_HOMESTATUS>>
       /\ (RefreshEnds /\ refresh_result'.error = "none")
            => /\ op.name = "async_get_home_status"
               /\ result.kind = "return"
               /\ homes_data.isdict
               /\ data'.homes_data = homes_data
               /\ data'.home_status = result.value
      ]_vars

C32_Witness ==
    /\ cpc = "idle"
    /\ calls_made = 1
    /\ op = GetHomesData
    /\ Len(hist) = MAX_RETRIES + 1
    /\ result.kind = "raise"
    /\ refresh_result.kind = "raise"
    /\ refresh_result.error = "NetatmoTimeoutError"
    /\ consecutive_update_failures = 1

\* C33: every attempt goes through the rate-limit check, then fetches the
\* token, then sends: the request position is entered from the rate-limit
\* check only, an attempt is made from the request position only and after
\* a check of its own, and each request sent carries the token the session
\* holds at that attempt.
C33_AttemptOrder ==
    [][/\ (pc' = "request" /\ pc # "request")
            => (pc \in {"check", "rate_sleep"} /\ stamped' = stamped + 1)
       /\ Len(hist') > Len(hist)
            => /\ pc = "request" /\ pc' # "request"
               /\ Len(hist') = Len(hist) + 1
               /\ stamped = Len(hist) + 1
       /\ sent' # sent /\ sent' # <<>>
            => /\ Len(hist') > Len(hist)
               /\ Len(sent') = Len(sent) + 1
               /\ Last(hist').kind # "token_failure"
               /\ Last(sent').headers.Authorization = <<"Bearer", oauth_token'>>
       /\ (Len(hist') > Len(hist) /\ Last(hist').kind = "token_failure")
            => sent' = sent
      ]_vars

C33_Witness ==
    /\ Len(sent) = 2
    /\ sent[1].headers.Authorization = <<"Bearer", 1>>
    /\ sent[2].headers.Authorization = <<"Bearer", 2>>
    /\ oauth_token = 2
    /\ stamped = 2
    /\ pc = "backoff"

\* C34: whatever refreshes succeeded or failed and whatever push
\* notifications arrived, the polling interval is at least 30 s and at most
\* 300 s.
C34_IntervalBounds ==
    /\ update_interval >= Ticks(30)
    /\ update_interval <= Ticks(300)

C34_Witness ==
    /\ update_interval = Ticks(300)
    /\ consecutive_update_failures = 4
    /\ webhook_active
    /\ cpc = "idle"

\* C35: when a refresh ends, the polling interval is 60 s if the failure
\* streak is then 0 and min(60 * 1.5^min(streak,5), 300) s otherwise,
\* whether or not push notifications are active; in particular the 30 s
\* set by a notification is gone when the refresh ends.
C35_IntervalAfterRefresh ==
    [][RefreshEnds
          => /\ update_interval' =
                   IF consecutive_update_failures' = 0 THEN Ticks(60)
                   ELSE ClaimedInterval(consecutive_update_failures')
             /\ update_interval' # Ticks(30)
      ]_vars

C35_Witness ==
    /\ hpc = "awaiting_refresh"
    /\ cpc = "idle"
    /\ webhook_active
    /\ refresh_requests = 1
    /\ refresh_result.error = "none"
    /\ consecutive_update_failures = 0
    /\ update_interval = Ticks(60)

\* C36: a call that ends with one of the Netatmo errors leaves the
\* consecutive-failure counter as it was before the call when its last
\* attempt failed at the token fetch, and exactly 1 above that in every
\* other case (401, 403, other 4xx, invalid JSON, vendor error, retries
\* exhausted); so a failed call can leave the counter at 0.
C36_CounterOnFailure ==
    (pc = "done" /\ result.kind = "raise" /\ result.type \in NetatmoErrors)
       => IF Last(hist).kind = "token_failure"
          THEN consecutive_failures = failures_before
          ELSE consecutive_failures = failures_before + 1

C36_Witness ==
    /\ pc = "done"
    /\ result.kind = "raise"
    /\ result.type = "NetatmoAuthError"
    /\ Len(hist) = 3
    /\ Is5xx(hist[1])
    /\ IsTransportFailure(hist[2])
    /\ hist[3].kind = "token_failure"
    /\ failures_before = 0
    /\ consecutive_failures = 0

\* the outcomes of a final attempt that end the call with an error
IsListedOutcome(o) ==
    \/ Is401(o) \/ Is403(o) \/ Is429(o) \/ Is5xx(o) \/ IsOther4xx(o)
    \/ IsVendorError(o) \/ IsTransportFailure(o)

\* the error type the final attempt's outcome stands for
ClaimedErrorType(o) ==
    CASE Is401(o) \/ Is403(o) -> "NetatmoAuthError"
      [] Is429(o) -> "NetatmoRateLimitError"
      [] o.kind = "timeout" -> "NetatmoTimeoutError"
      [] OTHER -> "NetatmoAPIError"

\* C37: whatever the outcomes of the attempts of a call, the error it
\* raises is the one its final attempt stands for: NetatmoAuthError for a
\* 401 or 403, NetatmoRateLimitError for a 429, NetatmoTimeoutError for a
\* timeout, NetatmoAPIError for a 5xx, another 4xx, a vendor error or a
\* connection error; earlier attempts have no part in it.
C37_ErrorByFinalAttempt ==
    (pc = "done" /\ result.kind = "raise" /\ IsListedOutcome(Last(hist)))
       => result.type = ClaimedErrorType(Last(hist))

\* the attempts of the running call and the timestamps it has recorded:
\* an attempt past _check_rate_limit has its timestamp, one that has ended
\* has exactly one, and a failed token fetch has sent no request
AttemptsStamped ==
    /\ pc = "request" => stamped = Len(hist) + 1
    /\ pc \in {"check", "rate_sleep", "backoff", "done"}
          => stamped = Len(hist)
    /\ (pc = "done" /\ hist # <<>> /\ Last(hist).kind = "token_failure")
          => Len(sent) = Len(hist) - 1

\* C38: every attempt of a call, retries included, appends exactly one
\* timestamp to the rate-limit window, and does so in _check_rate_limit,
\* before the token is fetched: the token fetch and the HTTP exchange add
\* none, an attempt whose token fetch fails has its timestamp although no
\* request was sent, and a call of n attempts has appended n timestamps.
C38_OneStampPerAttempt ==
    [][/\ AttemptsStamped'
       /\ stamped' = stamped + 1
             => /\ pc \in {"check", "rate_sleep"} /\ pc' = "request"
                /\ request_timestamps' =
                      Append(Prune(now, request_timestamps), now')
                /\ hist' = hist /\ sent' = sent
       /\ (stamped' = stamped /\ pc # "idle")
             => request_timestamps' \in
                   {request_timestamps, Prune(now, request_timestamps)}
       /\ Len(hist') = Len(hist) + 1 => stamped' = stamped]_vars

\* a call whose second attempt, made after the backoff, failed to get a
\* token: two timestamps at two times, one request
C38_Witness ==
    /\ pc = "done"
    /\ Len(hist) = 2
    /\ hist[2].kind = "token_failure"
    /\ stamped = 2
    /\ Len(sent) = 1
    /\ Len(request_timestamps) >= 2
    /\ request_timestamps[Len(request_timestamps)] = now
    /\ request_timestamps[Len(request_timestamps) - 1] < now

\* the attempts recorded in the 10 seconds that end with attempt i
InWindowOf(i) ==
    {j \in DOMAIN request_timestamps :
        /\ request_timestamps[j] <= request_timestamps[i]
        /\ InWindow(request_timestamps[i], request_timestamps[j])}

\* C39: however the calls of several coroutines on one client interleave,
\* no 10-second window holds more than RATE_LIMIT_MAX_REQUESTS = 40
\* recorded attempts.
C39_SharedRateLimit ==
    \A i \in DOMAIN request_timestamps :
        Cardinality(InWindowOf(i)) <= RATE_LIMIT_MAX_REQUESTS

\* C40: a live snapshot flagged stale means that the streak of failed
\* refreshes is at least 1, and with a streak of 0 the snapshot, if there
\* is one, has update_successful = True and neither a stale flag nor a
\* last_error: a successful refresh installs a snapshot without the
\* annotations of earlier soft failures.
C40_StaleMeansFailing ==
    /\ (data.present /\ data.stale = Some(TRUE))
          => consecutive_update_failures >= 1
    /\ (data.present /\ consecutive_update_failures = 0)
          => /\ data.update_successful
             /\ data.stale = None
             /\ data.last_error = None

\* a refresh has succeeded after failed ones: the streak is back at 0 and
\* the snapshot is the one just fetched
C40_Witness ==
    /\ cpc = "idle"
    /\ refresh_result = RefreshReturned("none", 2)
    /\ consecutive_update_failures = 0
    /\ data.present
    /\ data.update_successful
    /\ data.stale = None
    /\ data.last_error = None
    /\ last_successful_update = Some(now)

====
